---- MODULE Spec2Model ----
(***************************************************************************)
(* Verification model of the multi-agent trading pipeline                  *)
(* (celikh/multi-ai-agent-trading): the position ledger, the Execution     *)
(* Core, the Risk Core, the Signal Fusion Core, the worker lifecycle, the  *)
(* periodic loop and a worker's subscription on the bus.                   *)
(*                                                                         *)
(* Numbers.  The program computes in binary floating point.  The model     *)
(* keeps prices in whole quote units (dollars) and the ledger's money and  *)
(* quantities in whole units and lots.  The Risk Core's money, fractions   *)
(* and quantities are exact rationals <<n, d>>, rounded where the program  *)
(* calls round(); the fractions its constructor is given are written in    *)
(* basis points.  Fused scores are exact quotients.  An Optional float     *)
(* that the program only tests for truthiness (None and 0.0 both false)    *)
(* is 0 in the model; an unset correlation_id is 0 as well.                *)
(***************************************************************************)
EXTENDS Integers, Sequences, FiniteSets, TLC

VARIABLES
    \* ---- PositionManager (src/agents/execution/position_manager.py)
    positions,          \* self.positions: position_id -> Position
    closed_positions,   \* self.closed_positions: list of Position
    now,                \* the wall clock the position ids are stamped with
    ledger_ops,         \* number of ledger operations run so far (bounded)
    ledger_last,        \* history: <<operation, position_id, quantity, price>> of the last call
    \* ---- Execution Core (src/agents/execution/agent.py, order_executor.py)
    deliveries,         \* trade.order message -> number of deliveries so far
    handlers,           \* one record per delivery: the _handle_order coroutine
    pending_orders,     \* self.pending_orders: order_id -> message
    uuid_next,          \* number of uuid.uuid4() values drawn so far
    active_orders,      \* OrderExecutor.active_orders: order id -> execution
    exchange_orders,    \* the exchange's own order book entry per order id
    order_stream,       \* order id -> updates in the stream not yet consumed
    fetch_inflight,     \* fetch_order responses on their way back
    fetch_calls,        \* number of get_order_status calls made so far
    cancel_calls,       \* number of cancel_order calls made so far
    reports,            \* messages published on execution.report
    position_bus,       \* messages published on position.update
    protective,         \* stop-loss / take-profit orders placed after a fill
    \* ---- Risk Core (src/agents/risk_manager/agent.py)
    current_portfolio_risk, \* self.current_portfolio_risk, an exact fraction
    active_positions,   \* self.active_positions: rows of open positions
    db_positions,       \* positions table: the OPEN rows present at start-up
    risk_tasks,         \* one record per trade.intent: _handle_trade_intent
    orders_out,         \* messages published on trade.order
    rejections_out,     \* messages published on trade.rejection
    \* ---- Signal Fusion Core (src/agents/strategy/agent.py, signal_fusion.py)
    fusion_strategy,    \* self.fusion_strategy, fixed by the constructor
    signal_buffers,     \* self.signal_buffers: symbol -> SignalBuffer
    utcnow,             \* datetime.utcnow(), in ticks of TickSeconds
    signals_admitted,   \* number of signals delivered so far (bounded)
    decision_pc,        \* where one pass of _decision_loop stands
    decision_todo,      \* symbols of list(self.signal_buffers.items()) still to visit
    decision_intent,    \* the TradeIntent whose publish_message call is awaited
    intents_out,        \* messages published on trade.intent
    last_fusion,        \* history: the last fusion result and what became of it
    janitor_done,       \* history: the latest step ended with _cleanup_old_signals
    \* ---- worker lifecycle (src/agents/base/agent.py and the workers' shutdown)
    worker,             \* which worker class the process runs
    life_pc,            \* where main() stands
    running,            \* self._running
    tasks,              \* self._tasks: state of each managed task
    db_handle,          \* self._db: "none" or "PostgreSQLDatabase"
    exchange_conn,      \* the exchange session: "none", "open" or "closed"
    influx_client,      \* self._influx's client: "none", "open" or "closed"
    shutdown_log,       \* history: one record per shutdown() call that ended
    \* ---- direct calls of the Risk Core's and the Fusion Core's functions
    kelly_pc,           \* KellyCriterion.calculate: "idle", "input" or "returned"
    kelly_in,           \* its arguments
    kelly_out,          \* the fraction it returned
    sizing_pc,          \* "idle", "input", "proposed", "raised" or "validated"
    sizing_in,          \* what a trade is sized from
    position_size_out,  \* the PositionSize calculate_position_size returned
    proposal,           \* the arguments validate_trade is called with
    assessment_out,     \* the TradeRiskAssessment validate_trade returned
    fusion_in,          \* fuse_signals: the policy and the signals it is given
    fusion_clock,       \* the latest value datetime.utcnow() returned
    fusion_log,         \* history: what each invocation on fusion_in returned
    \* ---- periodic position monitoring (src/agents/execution/agent.py, execute)
    monitor_pc,         \* where execute() stands: "idle", "fetching", "persisting"
    monitor_todo,       \* position ids of open_positions still to refresh
    monitor_seen,       \* history: the position as its refresh began
    monitor_runs,       \* number of execute() calls so far (bounded)
    monitor_writes,     \* history: what execute() persisted and published
    monitor_tick,       \* history: the list of the latest execute() and the
                        \* positions whose price it failed to fetch
    \* ---- one subscription of a worker (base/agent.py, messaging/rabbitmq.py)
    bus_consuming,      \* queue.consume(process_message) has been called
    bus_queue,          \* messages waiting in the queue <worker>.<topic>
    bus_sent,           \* number of messages published to the topic (bounded)
    bus_deliveries,     \* one record per delivery: the process_message task
    bus_shutdown,       \* shutdown() of the worker has completed
    \* ---- PeriodicAgent.run (src/agents/base/agent.py)
    loop_pc,            \* "idle", "executing", "sleeping", "retry_sleeping", "ended"
    loop_log,           \* history: how each call of execute() ended
    loop_errors,        \* number of log_error calls made by run()
    loop_end,           \* history: what ended the loop
    \* ---- what becomes of the orders the Risk Core published
    orders_rejected,    \* indices of orders_out the exchange rejected
    orders_filled,      \* indices of orders_out the exchange filled
    position_updates_due, \* position.update messages not yet delivered to the Risk Core
    \* ---- ExchangeGateway.create_order under its retry decorator
    gateway_env,        \* settings.trading.mode and whether connect() has run
    gateway_pc,         \* "idle", "attempt", "backoff", "returned" or "raised"
    gateway_attempt,    \* tenacity's attempt_number of the call in progress
    gateway_calls,      \* history: how each run of the function body ended
    gateway_result,     \* what the caller of the current call got
    gateway_done,       \* number of calls that have ended (bounded)
    exchange_created,   \* orders the exchange has created for this gateway
    \* ---- the trade.order subscription of the Execution Core, by numbers
    order_queue,        \* trade.order messages waiting in the queue
    order_handlers,     \* unacknowledged messages: handlers at each await
    orders_acked,       \* messages acknowledged: their handler has returned
    orders_published    \* number of orders published so far (bounded)

ledgerVars == <<positions, closed_positions, now, ledger_ops, ledger_last>>
execVars == <<deliveries, handlers, pending_orders, uuid_next, active_orders,
              exchange_orders, order_stream, fetch_inflight, fetch_calls,
              cancel_calls,
              reports, position_bus, protective>>

riskVars == <<current_portfolio_risk, active_positions, db_positions, risk_tasks,
              orders_out, rejections_out>>

stratVars == <<fusion_strategy, signal_buffers, utcnow, signals_admitted,
               decision_pc, decision_todo, decision_intent, intents_out,
               last_fusion, janitor_done>>

lifeVars == <<worker, life_pc, running, tasks, db_handle, exchange_conn,
              influx_client, shutdown_log>>

calcVars == <<kelly_pc, kelly_in, kelly_out, sizing_pc, sizing_in,
              position_size_out, proposal, assessment_out,
              fusion_in, fusion_clock, fusion_log>>

monitorVars == <<monitor_pc, monitor_todo, monitor_seen, monitor_runs,
                 monitor_writes, monitor_tick>>

busVars == <<bus_consuming, bus_queue, bus_sent, bus_deliveries, bus_shutdown>>

loopVars == <<loop_pc, loop_log, loop_errors, loop_end>>

reserveVars == <<orders_rejected, orders_filled, position_updates_due>>

gatewayVars == <<gateway_env, gateway_pc, gateway_attempt, gateway_calls,
                 gateway_result, gateway_done, exchange_created>>

backlogVars == <<order_queue, order_handlers, orders_acked, orders_published>>

extVars == <<monitorVars, busVars, loopVars, reserveVars, gatewayVars, backlogVars>>

vars == <<ledgerVars, execVars, riskVars, stratVars, lifeVars, calcVars, extVars>>

\* ------------------------------------------------------------------ bounds
MaxLedgerOps == 3
MaxQty == 2
MaxDeliveries == 2
MaxHandlers == 2
MaxFetches == 1
MaxCancels == 1
MaxIntents == 2
MaxRiskInflight == 2
MaxStartRows == 4

Symbols == {"BTC/USDT", "ETH/USDT"}
FillPrices == {100, 110}
FillQtys == 1..MaxQty

\* The trade.order messages the bus may deliver.  correlation_id 0 is an
\* unset correlation_id (what the Risk Core's _create_order leaves it at).
OrderMessages == <<
    [correlation_id |-> 0, symbol |-> "BTC/USDT", order_type |-> "MARKET",
     side |-> "BUY", quantity |-> 1, price |-> 0, stop_loss |-> 0, take_profit |-> 0],
    [correlation_id |-> 1, symbol |-> "BTC/USDT", order_type |-> "LIMIT",
     side |-> "SELL", quantity |-> 2, price |-> 100, stop_loss |-> 0, take_profit |-> 0],
    [correlation_id |-> 0, symbol |-> "BTC/USDT", order_type |-> "STOP_LOSS",
     side |-> "SELL", quantity |-> 1, price |-> 100, stop_loss |-> 0, take_profit |-> 0] >>

\* The trade.intent messages the bus may deliver to the Risk Core.  stop_loss
\* and take_profit are the metadata entries the Signal Fusion Core averaged
\* over its signals (0: none).  correlation_id is what _generate_trade_intent
\* leaves it at: unset.
TradeIntents == <<
    [correlation_id |-> 0, symbol |-> "BTC/USDT", side |-> "BUY", confidence |-> 8000,
     expected_price |-> 100, stop_loss |-> 50, take_profit |-> 200],
    [correlation_id |-> 0, symbol |-> "BTC/USDT", side |-> "BUY", confidence |-> 8000,
     expected_price |-> 100, stop_loss |-> 101, take_profit |-> 110],
    [correlation_id |-> 0, symbol |-> "ETH/USDT", side |-> "SELL", confidence |-> 8000,
     expected_price |-> 100, stop_loss |-> 110, take_profit |-> 95],
    [correlation_id |-> 0, symbol |-> "BTC/USDT", side |-> "SELL", confidence |-> 7000,
     expected_price |-> 0, stop_loss |-> 0, take_profit |-> 0] >>

\* ATR values the time-series store may answer with (0: no value).
AtrValues == {0, 5}

\* ------------------------------------------------------- function helpers
Put(f, k, v) == [x \in DOMAIN f \cup {k} |-> IF x = k THEN v ELSE f[x]]
Del(f, k) == [x \in DOMAIN f \ {k} |-> f[x]]
EmptyMap == [x \in {} |-> 0]
Abs(x) == IF x < 0 THEN -x ELSE x
Min2(a, b) == IF a < b THEN a ELSE b
Max2(a, b) == IF a > b THEN a ELSE b

\* ------------------------------------------------------- exact arithmetic
\* The Risk Core's money and fractions are exact rationals <<n, d>> in lowest
\* terms with d > 0, so that what the program's round(x, 2) does to a value
\* that is not a whole number of cents can be seen.
RECURSIVE GCD(_, _)
GCD(a, b) == IF b = 0 THEN a ELSE GCD(b, a % b)

Rat(n, d) == LET g == GCD(Abs(n), d) IN <<n \div g, d \div g>>
\* both arguments in lowest terms: so is the product after cross-reduction
RatMul(a, b) ==
    LET g1 == GCD(Abs(a[1]), b[2])
        g2 == GCD(Abs(b[1]), a[2])
    IN <<(a[1] \div g1) * (b[1] \div g2), (a[2] \div g2) * (b[2] \div g1)>>
RatInv(a) == IF a[1] > 0 THEN <<a[2], a[1]>> ELSE <<-a[2], -a[1]>>
RatDiv(a, b) == RatMul(a, RatInv(b))
RatAdd(a, b) ==
    LET g == GCD(a[2], b[2])
    IN Rat(a[1] * (b[2] \div g) + b[1] * (a[2] \div g), (a[2] \div g) * b[2])
RatSub(a, b) == RatAdd(a, <<-b[1], b[2]>>)
RatLess(a, b) == a[1] * b[2] < b[1] * a[2]
RatLeq(a, b) == a[1] * b[2] <= b[1] * a[2]
RatMin(a, b) == IF RatLess(a, b) THEN a ELSE b
RatMax(a, b) == IF RatLess(a, b) THEN b ELSE a
RatAbs(a) == <<Abs(a[1]), a[2]>>
\* a fraction given in basis points, a whole number
Bps(x) == Rat(x, 10000)
Whole(x) == <<x, 1>>

\* Python's round(x, 2): the nearest whole number of hundredths.  Where x is
\* halfway between two of them the float that stands for x is not, and which
\* side it lies on is decided by its binary expansion (round(10.415, 2) is
\* 10.41, round(0.125, 2) is 0.12, round(0.375, 2) is 0.38): tie_up says
\* whether such a value goes up.
round2(x, tie_up) ==
    LET n == x[1] * 100
        q == n \div x[2]
        twice == 2 * (n - q * x[2])
    IN IF twice < x[2] THEN Rat(q, 100)
       ELSE IF twice > x[2] THEN Rat(q + 1, 100)
       ELSE IF tie_up THEN Rat(q + 1, 100) ELSE Rat(q, 100)

\* How the two round(x, 2) calls of one sizing may settle a tie.
Ties == BOOLEAN \X BOOLEAN

\* ------------------------------------------------- states after construction
\* Each component right after its constructor ran.  A specification that
\* exercises one component keeps the others in this state.
LedgerIdle ==
    /\ positions = EmptyMap
    /\ closed_positions = <<>>
    /\ now = 1
    /\ ledger_ops = 0
    /\ ledger_last = <<"none", <<>>, 0, 0>>

ExecIdle ==
    /\ deliveries = [m \in DOMAIN OrderMessages |-> 0]
    /\ handlers = <<>>
    /\ pending_orders = EmptyMap
    /\ uuid_next = 1
    /\ active_orders = EmptyMap
    /\ exchange_orders = EmptyMap
    /\ order_stream = EmptyMap
    /\ fetch_inflight = {}
    /\ fetch_calls = 0
    /\ cancel_calls = 0
    /\ reports = <<>>
    /\ position_bus = <<>>
    /\ protective = {}

RiskIdle ==
    /\ current_portfolio_risk = <<0, 1>>
    /\ active_positions = <<>>
    /\ db_positions = <<>>
    /\ risk_tasks = <<>>
    /\ orders_out = <<>>
    /\ rejections_out = <<>>

NoDecision ==
    [symbol |-> "", outcome |-> "none",
     fusion |-> [signal |-> "none", confidence |-> <<0, 1>>]]

StrategyIdle ==
    /\ fusion_strategy = "hybrid"
    /\ signal_buffers = <<>>
    /\ utcnow = 0
    /\ signals_admitted = 0
    /\ decision_pc = "sleeping"
    /\ decision_todo = <<>>
    /\ decision_intent = <<>>
    /\ intents_out = <<>>
    /\ last_fusion = NoDecision
    /\ janitor_done = FALSE

LifecycleIdle ==
    /\ worker = "execution"
    /\ life_pc = "constructed"
    /\ running = FALSE
    /\ tasks = <<>>
    /\ db_handle = "none"
    /\ exchange_conn = "open"
    /\ influx_client = "none"
    /\ shutdown_log = <<>>

\* No function has been called directly.
NoKellyIn == [win_probability |-> <<0, 1>>, reward_risk_ratio |-> <<0, 1>>]

NoSizingIn ==
    [balance |-> <<0, 1>>, current_risk |-> <<0, 1>>, symbol |-> "", side |-> "",
     current_price |-> 0, confidence |-> <<0, 1>>, custom_stop |-> 0,
     custom_tp |-> 0, atr |-> 0, method |-> "", existing_positions |-> <<>>]

NoPositionSize ==
    [quantity |-> <<0, 1>>, size_usd |-> <<0, 1>>, risk_amount |-> <<0, 1>>,
     method |-> <<>>, risk_adjusted |-> FALSE, new_total_risk |-> <<0, 1>>,
     raised |-> FALSE]

NoProposal ==
    [symbol |-> "", confidence |-> <<0, 1>>, position_size |-> <<0, 1>>,
     risk_amount |-> <<0, 1>>, reward_risk_ratio |-> <<0, 1>>,
     current_risk |-> <<0, 1>>, balance |-> <<0, 1>>, existing_positions |-> <<>>]

NoAssessment ==
    [approved |-> FALSE, risk_score |-> 0, position_size |-> <<0, 1>>,
     max_loss |-> <<0, 1>>, var_contribution |-> <<0, 1>>,
     portfolio_risk_after |-> <<0, 1>>, rejection_reason |-> {}]

KellyIdle ==
    /\ kelly_pc = "idle"
    /\ kelly_in = NoKellyIn
    /\ kelly_out = <<0, 1>>

SizingIdle ==
    /\ sizing_pc = "idle"
    /\ sizing_in = NoSizingIn
    /\ position_size_out = NoPositionSize
    /\ proposal = NoProposal
    /\ assessment_out = NoAssessment

NoFusionIn == [strategy |-> "", signals |-> <<>>]

FusionIdle ==
    /\ fusion_in = NoFusionIn
    /\ fusion_clock = 0
    /\ fusion_log = <<>>

CalcIdle == KellyIdle /\ SizingIdle /\ FusionIdle

NoPositionSeen == [quantity |-> 0, realized_pnl |-> 0, status |-> "none"]

MonitorIdle ==
    /\ monitor_pc = "idle"
    /\ monitor_todo = <<>>
    /\ monitor_seen = NoPositionSeen
    /\ monitor_runs = 0
    /\ monitor_writes = <<>>
    /\ monitor_tick = [list |-> <<>>, failed |-> {}]

BusIdle ==
    /\ bus_consuming = FALSE
    /\ bus_queue = <<>>
    /\ bus_sent = 0
    /\ bus_deliveries = <<>>
    /\ bus_shutdown = FALSE

LoopIdle ==
    /\ loop_pc = "idle"
    /\ loop_log = <<>>
    /\ loop_errors = 0
    /\ loop_end = "none"

ReserveIdle ==
    /\ orders_rejected = {}
    /\ orders_filled = {}
    /\ position_updates_due = 0

GatewayIdle ==
    /\ gateway_env = [mode |-> "paper", connected |-> FALSE]
    /\ gateway_pc = "idle"
    /\ gateway_attempt = 0
    /\ gateway_calls = <<>>
    /\ gateway_result = "none"
    /\ gateway_done = 0
    /\ exchange_created = 0

BacklogIdle ==
    /\ order_queue = 0
    /\ order_handlers = [pc \in {"placing", "watching", "watching_expired"} |-> 0]
    /\ orders_acked = 0
    /\ orders_published = 0

ExtIdle ==
    MonitorIdle /\ BusIdle /\ LoopIdle /\ ReserveIdle /\ GatewayIdle /\ BacklogIdle

notLedger == <<execVars, riskVars, stratVars, lifeVars, calcVars, extVars>>
notExec == <<ledger_ops, ledger_last, riskVars, stratVars, lifeVars, calcVars, extVars>>
notExecLedger == <<ledgerVars, riskVars, stratVars, lifeVars, calcVars, extVars>>
notRisk == <<ledgerVars, execVars, stratVars, lifeVars, calcVars, extVars>>
notStrategy == <<ledgerVars, execVars, riskVars, lifeVars, calcVars, extVars>>
notLifecycle == <<ledgerVars, execVars, riskVars, stratVars, calcVars, extVars>>
notCalc == <<ledgerVars, execVars, riskVars, stratVars, lifeVars, extVars>>
notMonitor == <<ledger_ops, ledger_last, deliveries, handlers, pending_orders,
               uuid_next, active_orders, exchange_orders, order_stream,
               fetch_inflight, fetch_calls, cancel_calls, reports, protective,
               riskVars, stratVars, lifeVars, calcVars, busVars, loopVars,
               reserveVars, gatewayVars, backlogVars>>
notBus == <<ledgerVars, execVars, riskVars, stratVars, lifeVars, calcVars,
            monitorVars, loopVars, reserveVars, gatewayVars, backlogVars>>
notReserve == <<ledgerVars, deliveries, handlers, pending_orders, uuid_next,
                active_orders, exchange_orders, order_stream, fetch_inflight,
                fetch_calls, cancel_calls, position_bus, protective, stratVars,
                lifeVars, calcVars, monitorVars, busVars, loopVars, gatewayVars,
                backlogVars>>
notLoop == <<ledgerVars, execVars, riskVars, stratVars, calcVars, monitorVars,
             busVars, reserveVars, worker, life_pc, tasks, db_handle, exchange_conn,
             influx_client, shutdown_log, gatewayVars, backlogVars>>
notGateway == <<ledgerVars, execVars, riskVars, stratVars, lifeVars, calcVars,
                monitorVars, busVars, loopVars, reserveVars, backlogVars>>
notBacklog == <<ledgerVars, execVars, riskVars, stratVars, lifeVars, calcVars,
                monitorVars, busVars, loopVars, reserveVars, gatewayVars>>

\* ========================================================================
\* PositionManager
\* ========================================================================

\* The ledger as one value: the open map and the closed history.
Ledger(pos, closed) == [positions |-> pos, closed_positions |-> closed]

\* P&L per unit in the position's favour.
pnl_per_unit(side, entry_price, price) ==
    IF side = "long" THEN price - entry_price ELSE entry_price - price

open_position(L, symbol, side, quantity, entry_price, stop_loss, take_profit, ts) ==
    LET position_id == <<symbol, side, ts>>
        position == [position_id |-> position_id,
                     symbol |-> symbol,
                     side |-> side,
                     entry_price |-> entry_price,
                     current_price |-> entry_price,
                     quantity |-> quantity,
                     initial_quantity |-> quantity,
                     unrealized_pnl |-> 0,
                     realized_pnl |-> 0,
                     total_pnl |-> 0,
                     stop_loss |-> stop_loss,
                     take_profit |-> take_profit,
                     status |-> "open"]
    IN Ledger(Put(L.positions, position_id, position), L.closed_positions)

update_position_price(L, position_id, current_price) ==
    IF position_id \notin DOMAIN L.positions
    THEN L
    ELSE LET p == L.positions[position_id]
             ppu == pnl_per_unit(p.side, p.entry_price, current_price)
             q == [p EXCEPT !.current_price = current_price,
                            !.unrealized_pnl = ppu * p.quantity,
                            !.total_pnl = ppu * p.quantity + p.realized_pnl]
         IN Ledger(Put(L.positions, position_id, q), L.closed_positions)

\* increase_position without its call of update_position_price.
increase_position_NoRecalc(L, position_id, additional_quantity, price) ==
    IF position_id \notin DOMAIN L.positions
    THEN L
    ELSE LET p == L.positions[position_id]
             total_cost == p.quantity * p.entry_price + additional_quantity * price
             new_quantity == p.quantity + additional_quantity
             q == [p EXCEPT !.entry_price = total_cost \div new_quantity,
                            !.quantity = new_quantity,
                            !.current_price = price]
         IN Ledger(Put(L.positions, position_id, q), L.closed_positions)

\* increase_position with the entry price averaged over the two prices,
\* the quantities left out.
increase_position_Unweighted(L, position_id, additional_quantity, price) ==
    IF position_id \notin DOMAIN L.positions
    THEN L
    ELSE LET p == L.positions[position_id]
             q == [p EXCEPT !.entry_price = (p.entry_price + price) \div 2,
                            !.quantity = p.quantity + additional_quantity,
                            !.current_price = price]
         IN update_position_price(
                Ledger(Put(L.positions, position_id, q), L.closed_positions),
                position_id, price)

increase_position(L, position_id, additional_quantity, price) ==
    IF position_id \notin DOMAIN L.positions
    THEN L
    ELSE LET p == L.positions[position_id]
             total_cost == p.quantity * p.entry_price + additional_quantity * price
             new_quantity == p.quantity + additional_quantity
             new_avg_price == total_cost \div new_quantity
             q == [p EXCEPT !.entry_price = new_avg_price,
                            !.quantity = new_quantity,
                            !.current_price = price]
         IN update_position_price(
                Ledger(Put(L.positions, position_id, q), L.closed_positions),
                position_id, price)

close_position(L, position_id, exit_price) ==
    IF position_id \notin DOMAIN L.positions
    THEN L
    ELSE LET p == L.positions[position_id]
             final_pnl == pnl_per_unit(p.side, p.entry_price, exit_price) * p.quantity
             q == [p EXCEPT !.current_price = exit_price,
                            !.unrealized_pnl = 0,
                            !.realized_pnl = p.realized_pnl + final_pnl,
                            !.total_pnl = p.realized_pnl + final_pnl,
                            !.status = "closed",
                            !.quantity = 0]
         IN Ledger(Del(L.positions, position_id), Append(L.closed_positions, q))

\* decrease_position without its full-close branch: the quantity is reduced
\* whatever the fill size.
decrease_position_NoFullClose(L, position_id, reduce_quantity, price) ==
    IF position_id \notin DOMAIN L.positions
    THEN L
    ELSE LET p == L.positions[position_id]
             partial_pnl == pnl_per_unit(p.side, p.entry_price, price) * reduce_quantity
             q == [p EXCEPT !.quantity = p.quantity - reduce_quantity,
                            !.realized_pnl = p.realized_pnl + partial_pnl,
                            !.current_price = price,
                            !.status = "partially_closed"]
         IN update_position_price(
                Ledger(Put(L.positions, position_id, q), L.closed_positions),
                position_id, price)

\* decrease_position that books the P&L of a partial close on the quantity
\* that remains instead of the quantity that was closed.
decrease_position_PnlOnRemaining(L, position_id, reduce_quantity, price) ==
    IF position_id \notin DOMAIN L.positions
    THEN L
    ELSE LET p == L.positions[position_id]
         IN IF reduce_quantity >= p.quantity
            THEN close_position(L, position_id, price)
            ELSE LET partial_pnl == pnl_per_unit(p.side, p.entry_price, price)
                                    * (p.quantity - reduce_quantity)
                     q == [p EXCEPT !.quantity = p.quantity - reduce_quantity,
                                    !.realized_pnl = p.realized_pnl + partial_pnl,
                                    !.current_price = price,
                                    !.status = "partially_closed"]
                 IN update_position_price(
                        Ledger(Put(L.positions, position_id, q), L.closed_positions),
                        position_id, price)

decrease_position(L, position_id, reduce_quantity, price) ==
    IF position_id \notin DOMAIN L.positions
    THEN L
    ELSE LET p == L.positions[position_id]
         IN IF reduce_quantity >= p.quantity
            THEN close_position(L, position_id, price)
            ELSE LET partial_pnl ==
                         pnl_per_unit(p.side, p.entry_price, price) * reduce_quantity
                     q == [p EXCEPT !.quantity = p.quantity - reduce_quantity,
                                    !.realized_pnl = p.realized_pnl + partial_pnl,
                                    !.current_price = price,
                                    !.status = "partially_closed"]
                 IN update_position_price(
                        Ledger(Put(L.positions, position_id, q), L.closed_positions),
                        position_id, price)

get_positions_by_symbol(pos, symbol) == {id \in DOMAIN pos : pos[id].symbol = symbol}

\* ------------------------------------------------ ledger as a state machine
CurLedger == Ledger(positions, closed_positions)

\* Every position id the ledger has ever issued: callers may pass any of them.
ClosedIds == {closed_positions[i].position_id : i \in 1..Len(closed_positions)}
KnownIds == DOMAIN positions \cup ClosedIds

SetLedger(L) ==
    /\ positions' = L.positions
    /\ closed_positions' = L.closed_positions

LedgerInit ==
    /\ LedgerIdle
    /\ ExtIdle
    /\ ExecIdle
    /\ RiskIdle
    /\ StrategyIdle
    /\ LifecycleIdle
    /\ CalcIdle

LedgerOpen ==
    /\ ledger_ops < MaxLedgerOps
    /\ \E s \in Symbols, side \in {"long", "short"}, q \in FillQtys, p \in FillPrices :
          /\ SetLedger(open_position(CurLedger, s, side, q, p, 0, 0, now))
          /\ ledger_last' = <<"open", <<s, side, now>>, q, p>>
    /\ now' = now + 1
    /\ ledger_ops' = ledger_ops + 1
    /\ UNCHANGED notLedger

LedgerUpdatePrice ==
    /\ ledger_ops < MaxLedgerOps
    /\ \E id \in KnownIds, p \in FillPrices :
          /\ SetLedger(update_position_price(CurLedger, id, p))
          /\ ledger_last' = <<"update", id, 0, p>>
    /\ ledger_ops' = ledger_ops + 1
    /\ UNCHANGED now
    /\ UNCHANGED notLedger

LedgerIncrease ==
    /\ ledger_ops < MaxLedgerOps
    /\ \E id \in KnownIds, q \in FillQtys, p \in FillPrices :
          /\ SetLedger(increase_position(CurLedger, id, q, p))
          /\ ledger_last' = <<"increase", id, q, p>>
    /\ ledger_ops' = ledger_ops + 1
    /\ UNCHANGED now
    /\ UNCHANGED notLedger

LedgerDecrease ==
    /\ ledger_ops < MaxLedgerOps
    /\ \E id \in KnownIds, q \in FillQtys, p \in FillPrices :
          /\ SetLedger(decrease_position(CurLedger, id, q, p))
          /\ ledger_last' = <<"decrease", id, q, p>>
    /\ ledger_ops' = ledger_ops + 1
    /\ UNCHANGED now
    /\ UNCHANGED notLedger

LedgerClose ==
    /\ ledger_ops < MaxLedgerOps
    /\ \E id \in KnownIds, p \in FillPrices :
          /\ SetLedger(close_position(CurLedger, id, p))
          /\ ledger_last' = <<"close", id, 0, p>>
    /\ ledger_ops' = ledger_ops + 1
    /\ UNCHANGED now
    /\ UNCHANGED notLedger

LedgerNext ==
    \/ LedgerOpen
    \/ LedgerUpdatePrice
    \/ LedgerIncrease
    \/ LedgerDecrease
    \/ LedgerClose

SpecLedger == LedgerInit /\ [][LedgerNext]_vars

\* ------------------------------------------------------------------------
\* C5: after any sequence of open, increase, decrease, close and price-update
\* operations with positive fill quantities, every position's quantity is
\* non-negative; a fully closed position has quantity 0 and status closed, is
\* in the closed history and not in the open map; and no later operation
\* modifies a closed position or returns it to the open map.
C5_QuantitiesNonNegative ==
    /\ \A id \in DOMAIN positions :
          /\ positions[id].quantity >= 0
          /\ positions[id].status # "closed"
    /\ \A i \in 1..Len(closed_positions) :
          /\ closed_positions[i].quantity = 0
          /\ closed_positions[i].status = "closed"
          /\ closed_positions[i].position_id \notin DOMAIN positions

C5_ClosedNeverTouched ==
    /\ Len(closed_positions') >= Len(closed_positions)
    /\ \A i \in 1..Len(closed_positions) :
          /\ closed_positions'[i] = closed_positions[i]
          /\ closed_positions[i].position_id \notin DOMAIN positions'

C5_LedgerClosedAbsorbing ==
    [](C5_QuantitiesNonNegative) /\ [][C5_ClosedNeverTouched]_vars

\* A position was closed and a later increase addressed its id.
C5_Witness ==
    /\ ledger_last[1] = "increase"
    /\ ledger_last[2] \in ClosedIds

\* ------------------------------------------------------------------------
\* C14: decrease_position on an open position.  A fill of at least the
\* remaining quantity closes the position: realized_pnl grows by
\* (fill - entry) * remaining quantity for LONG, (entry - fill) * remaining
\* quantity for SHORT, quantity is 0 and status CLOSED.  A smaller fill adds
\* (fill - entry) * fill_qty (mirrored for SHORT) to realized_pnl, takes
\* fill_qty off the quantity and sets the status PARTIALLY_CLOSED.
C14_Gain(pos, fill_price, qty) ==
    IF pos.side = "long"
    THEN (fill_price - pos.entry_price) * qty
    ELSE (pos.entry_price - fill_price) * qty

C14_DecreaseStep ==
    (ledger_ops' = ledger_ops + 1
        /\ ledger_last'[1] = "decrease"
        /\ ledger_last'[2] \in DOMAIN positions)
    => LET id == ledger_last'[2]
           fill_qty == ledger_last'[3]
           fill_price == ledger_last'[4]
           old == positions[id]
       IN  IF fill_qty >= old.quantity
           THEN /\ id \notin DOMAIN positions'
                /\ Len(closed_positions') = Len(closed_positions) + 1
                /\ LET new == closed_positions'[Len(closed_positions')]
                   IN  /\ new.position_id = id
                       /\ new.realized_pnl =
                             old.realized_pnl + C14_Gain(old, fill_price, old.quantity)
                       /\ new.quantity = 0
                       /\ new.status = "closed"
           ELSE /\ id \in DOMAIN positions'
                /\ closed_positions' = closed_positions
                /\ positions'[id].realized_pnl =
                      old.realized_pnl + C14_Gain(old, fill_price, fill_qty)
                /\ positions'[id].quantity = old.quantity - fill_qty
                /\ positions'[id].status = "partially_closed"

C14_DecreaseBooksPnl == [][C14_DecreaseStep]_vars

\* Reached: a partial decrease of a short position has just booked a
\* non-zero P&L and left a positive quantity open.
C14_Witness ==
    /\ ledger_last[1] = "decrease"
    /\ ledger_last[2] \in DOMAIN positions
    /\ positions[ledger_last[2]].side = "short"
    /\ positions[ledger_last[2]].status = "partially_closed"
    /\ positions[ledger_last[2]].realized_pnl # 0
    /\ positions[ledger_last[2]].quantity > 0

\* ------------------------------------------------------------------------
\* C19: every position in the open map has unrealized_pnl =
\* (current_price - entry_price) * quantity if LONG and
\* (entry_price - current_price) * quantity if SHORT, and total_pnl =
\* unrealized_pnl + realized_pnl, after open, price update, increase and
\* partial decrease alike.
C19_UnrealizedPnlFromFields ==
    \A id \in DOMAIN positions :
        LET pos == positions[id]
        IN  /\ pos.unrealized_pnl =
                  (IF pos.side = "long"
                   THEN (pos.current_price - pos.entry_price) * pos.quantity
                   ELSE (pos.entry_price - pos.current_price) * pos.quantity)
            /\ pos.total_pnl = pos.unrealized_pnl + pos.realized_pnl

\* Reached: an increase has just averaged the entry price of a position that
\* had booked a realized P&L before, and left it with an unrealized P&L.
C19_Witness ==
    /\ ledger_last[1] = "increase"
    /\ ledger_last[2] \in DOMAIN positions
    /\ positions[ledger_last[2]].realized_pnl # 0
    /\ positions[ledger_last[2]].unrealized_pnl # 0
    /\ positions[ledger_last[2]].total_pnl
          # positions[ledger_last[2]].realized_pnl

\* ========================================================================
\* Wire protocol (src/agents/base/protocol.py)
\* ========================================================================
protocol_OrderSide == {"BUY", "SELL"}
protocol_OrderType == {"MARKET", "LIMIT", "STOP_LOSS", "TAKE_PROFIT"}
protocol_OrderStatus == {"PENDING", "FILLED", "PARTIAL", "CANCELLED", "FAILED"}

\* str.upper() / str.lower() on the strings the program passes through them.
upper(s) ==
    CASE s = "buy" -> "BUY" [] s = "sell" -> "SELL"
      [] s = "filled" -> "FILLED" [] s = "rejected" -> "REJECTED"
      [] OTHER -> s
lower(s) ==
    CASE s = "BUY" -> "buy" [] s = "SELL" -> "sell" [] OTHER -> s

\* Construction of an ExecutionReport: pydantic accepts the side and status
\* only when they are values of the protocol's enums; otherwise the
\* constructor raises ValidationError.
ExecutionReport_validates(side, status) ==
    side \in protocol_OrderSide /\ status \in protocol_OrderStatus

\* ========================================================================
\* OrderExecutor (src/agents/execution/order_executor.py)
\* ========================================================================
executor_OrderStatus ==
    {"pending", "open", "partial", "filled", "cancelled", "rejected", "expired"}

\* The states the executor's enum documents as final.
executor_Terminal == {"filled", "cancelled", "rejected", "expired"}

status_map(s) ==
    CASE s = "open" -> "open"
      [] s = "closed" -> "filled"
      [] s = "canceled" -> "cancelled"
      [] s = "cancelled" -> "cancelled"
      [] s = "expired" -> "expired"
      [] s = "rejected" -> "rejected"
      [] OTHER -> "open"

parse_order_response(order) ==
    LET st == status_map(order.status)
    IN [order_id |-> order.id,
        symbol |-> order.symbol,
        side |-> order.side,
        quantity |-> order.amount,
        filled_quantity |-> order.filled,
        average_fill_price |-> order.average,
        status |-> IF order.filled > 0 /\ order.filled < order.amount /\ st = "open"
                   THEN "partial" ELSE st]

\* What place_market_order / place_limit_order return when the exchange call
\* raises: a REJECTED execution that is not tracked in active_orders.
rejected_execution(ts, symbol, side, quantity) ==
    [order_id |-> <<"rejected", ts>>,
     symbol |-> symbol,
     side |-> side,
     quantity |-> quantity,
     filled_quantity |-> 0,
     average_fill_price |-> 0,
     status |-> "rejected"]

\* ========================================================================
\* ExecutionAgent (src/agents/execution/agent.py)
\* ========================================================================

\* order_id = message.correlation_id or str(uuid.uuid4())
order_key(correlation_id, uuid) ==
    IF correlation_id # 0 THEN <<"cid", correlation_id>> ELSE <<"uuid", uuid>>
uuid_drawn(correlation_id) == IF correlation_id # 0 THEN 0 ELSE 1

\* "Remove from pending" at the end of _process_filled_order and
\* _process_rejected_order: the key is computed afresh.
remove_from_pending(pending, correlation_id, uuid) ==
    LET order_id == order_key(correlation_id, uuid)
    IN IF order_id \in DOMAIN pending THEN Del(pending, order_id) ELSE pending

\* existing_positions[0]: the dict keeps insertion order, which is the order
\* of the ids' timestamps.
first_position(pos, symbol) ==
    CHOOSE id \in get_positions_by_symbol(pos, symbol) :
        \A j \in get_positions_by_symbol(pos, symbol) : id[3] <= j[3]

\* _update_position without its look at the existing positions: every fill
\* opens a position.
update_position_AlwaysOpen(L, order, execution, ts) ==
    LET pside == IF execution.side = "buy" THEN "long" ELSE "short"
    IN  [ledger |-> open_position(L, execution.symbol, pside,
                                  execution.filled_quantity,
                                  execution.average_fill_price,
                                  order.stop_loss, order.take_profit, ts),
         position_id |-> <<execution.symbol, pside, ts>>,
         opened |-> TRUE]

\* The synchronous part of _update_position: the ledger after the fill and
\* the id of the position object the handler goes on to publish.
update_position(L, order, execution, ts) ==
    LET side == execution.side
        quantity == execution.filled_quantity
        price == execution.average_fill_price
    IN IF get_positions_by_symbol(L.positions, execution.symbol) = {}
       THEN LET pside == IF side = "buy" THEN "long" ELSE "short"
            IN [ledger |-> open_position(L, execution.symbol, pside, quantity, price,
                                         order.stop_loss, order.take_profit, ts),
                position_id |-> <<execution.symbol, pside, ts>>,
                opened |-> TRUE]
       ELSE LET id == first_position(L.positions, execution.symbol)
                p == L.positions[id]
            IN IF (side = "buy" /\ p.side = "long") \/ (side = "sell" /\ p.side = "short")
               THEN [ledger |-> increase_position(L, id, quantity, price),
                     position_id |-> id, opened |-> FALSE]
               ELSE [ledger |-> decrease_position(L, id, quantity, price),
                     position_id |-> id, opened |-> FALSE]

\* The Position object behind an id after an operation: still open, or the
\* record that close_position appended to the history.
position_object(L, id) ==
    IF id \in DOMAIN L.positions
    THEN L.positions[id]
    ELSE LET i == CHOOSE k \in 1..Len(L.closed_positions) :
                      L.closed_positions[k].position_id = id
         IN L.closed_positions[i]

\* ------------------------------------------ _update_position on any fill
\* The ledger under fills only: each step is one call of _update_position
\* with an execution of either side on either symbol, between price
\* refreshes.  ledger_last keeps the fill: <<"fill", <<symbol, side, time>>,
\* filled_quantity, average_fill_price>>.
ExecutionSides == {"buy", "sell"}

FillOf(symbol, side, quantity, price) ==
    [order_id |-> <<"fill", 0>>, symbol |-> symbol, side |-> side,
     quantity |-> quantity, filled_quantity |-> quantity,
     average_fill_price |-> price, status |-> "filled"]

Fill(s, side, q, p) ==
    /\ ledger_ops < MaxLedgerOps
    /\ LET upd == update_position(CurLedger, OrderMessages[1],
                                  FillOf(s, side, q, p), now)
       IN /\ SetLedger(upd.ledger)
          /\ ledger_last' = <<"fill", <<s, side, now>>, q, p>>
          /\ now' = IF upd.opened THEN now + 1 ELSE now
    /\ ledger_ops' = ledger_ops + 1
    /\ UNCHANGED notLedger

LedgerFill ==
    \E s \in Symbols, side \in ExecutionSides, q \in FillQtys, p \in FillPrices :
        Fill(s, side, q, p)

DispatchNext ==
    \/ LedgerFill
    \/ LedgerUpdatePrice

SpecDispatch == LedgerInit /\ [][DispatchNext]_vars

\* ------------------------------------------------------------------------
\* C34: position ledger dispatch on a fill: with no position for the symbol
\* a new position is opened (long if the side is buy, else short, entry
\* price = fill average, initial quantity = fill quantity); with a position
\* on the same side the position is increased and its entry price becomes
\* (old_qty * old_entry + add_qty * fill_price) / (old_qty + add_qty), in
\* whole price units; with a position on the opposite side it is decreased.
Opened(symbol, side, quantity, price) ==
    \E id \in DOMAIN positions' \ DOMAIN positions :
        /\ DOMAIN positions' = DOMAIN positions \cup {id}
        /\ \A other \in DOMAIN positions : positions'[other] = positions[other]
        /\ positions'[id].symbol = symbol
        /\ positions'[id].side = (IF side = "buy" THEN "long" ELSE "short")
        /\ positions'[id].entry_price = price
        /\ positions'[id].initial_quantity = quantity
        /\ positions'[id].quantity = quantity
        /\ positions'[id].status = "open"
        /\ closed_positions' = closed_positions

Increased(id, quantity, price) ==
    LET old == positions[id]
        total_cost == old.quantity * old.entry_price + quantity * price
        new_quantity == old.quantity + quantity
    IN  /\ DOMAIN positions' = DOMAIN positions
        /\ positions'[id].quantity = new_quantity
        /\ positions'[id].entry_price * new_quantity <= total_cost
        /\ total_cost < (positions'[id].entry_price + 1) * new_quantity
        /\ positions'[id].side = old.side
        /\ closed_positions' = closed_positions

Decreased(id, quantity, price) ==
    LET old == positions[id]
    IN  IF quantity >= old.quantity
        THEN /\ id \notin DOMAIN positions'
             /\ Len(closed_positions') = Len(closed_positions) + 1
             /\ closed_positions'[Len(closed_positions')].position_id = id
        ELSE /\ DOMAIN positions' = DOMAIN positions
             /\ positions'[id].quantity = old.quantity - quantity
             /\ positions'[id].entry_price = old.entry_price
             /\ positions'[id].side = old.side
             /\ closed_positions' = closed_positions

C34_FillStep ==
    (ledger_last'[1] = "fill" /\ ledger_ops' = ledger_ops + 1)
        => LET symbol == ledger_last'[2][1]
               side == ledger_last'[2][2]
               quantity == ledger_last'[3]
               price == ledger_last'[4]
           IN  IF get_positions_by_symbol(positions, symbol) = {}
               THEN Opened(symbol, side, quantity, price)
               ELSE LET id == first_position(positions, symbol)
                    IN  IF (side = "buy") = (positions[id].side = "long")
                        THEN Increased(id, quantity, price)
                        ELSE Decreased(id, quantity, price)

C34_FillDispatch == [][C34_FillStep]_vars

\* Reached: a fill has just been added to a position of its side at another
\* price, so the position holds more than it was opened with at an entry
\* price that is neither of the two fill prices.
C34_Witness ==
    /\ ledger_last[1] = "fill"
    /\ \E id \in DOMAIN positions :
          /\ positions[id].symbol = ledger_last[2][1]
          /\ positions[id].quantity > positions[id].initial_quantity
          /\ positions[id].entry_price \notin FillPrices

\* ---------------------------------------------- _handle_order as coroutines
\* A handler runs from one await to the next in one step.  pc names the await
\* it is suspended at: "placing" (place_*_order), "fills" (get_fills, at the
\* head of _process_filled_order), "watching" (watch_orders), "done".
NoExecution ==
    [order_id |-> <<"none", 0>>, symbol |-> "", side |-> "", quantity |-> 0,
     filled_quantity |-> 0, average_fill_price |-> 0, status |-> "pending"]

Handler(m, pc, key, outcome) ==
    [msg |-> m, pc |-> pc, order_id |-> key, execution |-> NoExecution,
     monitored |-> FALSE, outcome |-> outcome, applied |-> 0]

\* wrapped_handler + _handle_order up to the first await.
Deliver(m) ==
    /\ Len(handlers) < MaxHandlers
    /\ deliveries[m] < MaxDeliveries
    /\ LET message == OrderMessages[m]
           order_id == order_key(message.correlation_id, uuid_next)
       IN /\ uuid_next' = uuid_next + uuid_drawn(message.correlation_id)
          /\ pending_orders' = Put(pending_orders, order_id, m)
          /\ handlers' = Append(handlers,
                IF message.order_type \in {"MARKET", "LIMIT"}
                THEN Handler(m, "placing", order_id, "none")
                ELSE Handler(m, "done", order_id, "unsupported_order_type"))
    /\ deliveries' = [deliveries EXCEPT ![m] = @ + 1]
    /\ UNCHANGED <<active_orders, exchange_orders, order_stream, fetch_inflight,
                   fetch_calls, cancel_calls, reports, position_bus, protective>>
    /\ UNCHANGED notExecLedger

\* The exchange call inside place_*_order raised: the executor returns a
\* REJECTED execution and _handle_order runs _process_rejected_order, which
\* has no await before it returns when the report cannot be built.
PlaceRejected(h) ==
    /\ h \in DOMAIN handlers
    /\ handlers[h].pc = "placing"
    /\ LET message == OrderMessages[handlers[h].msg]
           execution == rejected_execution(h, message.symbol, message.side,
                                           message.quantity)
           side == upper(execution.side)
       IN /\ reports' =
                IF ExecutionReport_validates(side, "REJECTED")
                THEN Append(reports, [handler |-> h, order_id |-> execution.order_id,
                                      side |-> side, status |-> "REJECTED",
                                      filled_quantity |-> 0])
                ELSE reports
          /\ pending_orders' =
                remove_from_pending(pending_orders, message.correlation_id, uuid_next)
          /\ uuid_next' = uuid_next + uuid_drawn(message.correlation_id)
          /\ handlers' = [handlers EXCEPT ![h].pc = "done",
                                          ![h].execution = execution,
                                          ![h].outcome = "rejected"]
    /\ UNCHANGED <<deliveries, active_orders, exchange_orders, order_stream,
                   fetch_inflight, fetch_calls, cancel_calls, position_bus,
                   protective>>
    /\ UNCHANGED notExecLedger

\* The exchange accepted the order: create_order returned it either already
\* closed (filled at price p) or still open.
PlaceAccepted(h) ==
    /\ h \in DOMAIN handlers
    /\ handlers[h].pc = "placing"
    /\ \E st \in {"closed", "open"}, p \in FillPrices :
          LET message == OrderMessages[handlers[h].msg]
              order == [id |-> <<"ex", h>>,
                        symbol |-> message.symbol,
                        side |-> lower(message.side),
                        amount |-> message.quantity,
                        filled |-> IF st = "closed" THEN message.quantity ELSE 0,
                        average |-> IF st = "closed" THEN p ELSE 0,
                        status |-> st]
              execution == parse_order_response(order)
          IN /\ (st = "open" => p = 100)
             /\ exchange_orders' = Put(exchange_orders, order.id, order)
             /\ order_stream' = Put(order_stream, order.id, <<>>)
             /\ active_orders' = Put(active_orders, order.id, execution)
             /\ handlers' =
                   [handlers EXCEPT ![h].execution = execution,
                                    ![h].pc = IF execution.status = "filled"
                                              THEN "fills" ELSE "watching",
                                    ![h].monitored = (execution.status # "filled")]
    /\ UNCHANGED <<deliveries, pending_orders, uuid_next, fetch_inflight,
                   fetch_calls, cancel_calls, reports, position_bus, protective>>
    /\ UNCHANGED notExecLedger

\* _process_filled_order after get_fills returned: report, _update_position,
\* position.update, _store_execution, then the ExecutionReport.  When the
\* report cannot be built the ValidationError leaves the function: it ends
\* _handle_order (logged by its except), or, raised inside the monitoring
\* callback, it leaves the loop of watch_order, whose except clause passes:
\* the monitoring ends.
ProcessFilled(h) ==
    /\ h \in DOMAIN handlers
    /\ handlers[h].pc = "fills"
    /\ LET message == OrderMessages[handlers[h].msg]
           execution == handlers[h].execution
           upd == update_position(CurLedger, message, execution, now)
           position == position_object(upd.ledger, upd.position_id)
           side == upper(execution.side)
           opposite == IF execution.side = "buy" THEN "sell" ELSE "buy"
       IN /\ SetLedger(upd.ledger)
          /\ now' = IF upd.opened THEN now + 1 ELSE now
          /\ position_bus' = Append(position_bus,
                [symbol |-> execution.symbol, side |-> position.side,
                 quantity |-> position.quantity,
                 current_price |-> execution.average_fill_price,
                 position_id |-> upd.position_id])
          /\ IF ExecutionReport_validates(side, execution.status)
             THEN /\ reports' = Append(reports,
                        [handler |-> h, order_id |-> execution.order_id,
                         side |-> side, status |-> execution.status,
                         filled_quantity |-> execution.filled_quantity])
                  /\ protective' = protective
                        \cup (IF message.stop_loss # 0
                              THEN {[kind |-> "stop_loss", symbol |-> execution.symbol,
                                     side |-> opposite,
                                     quantity |-> execution.filled_quantity,
                                     price |-> message.stop_loss]}
                              ELSE {})
                        \cup (IF message.take_profit # 0
                              THEN {[kind |-> "take_profit", symbol |-> execution.symbol,
                                     side |-> opposite,
                                     quantity |-> execution.filled_quantity,
                                     price |-> message.take_profit]}
                              ELSE {})
                  /\ pending_orders' = remove_from_pending(
                        pending_orders, message.correlation_id, uuid_next)
                  /\ uuid_next' = uuid_next + uuid_drawn(message.correlation_id)
                  /\ handlers' = [handlers EXCEPT ![h].pc = "done",
                                                  ![h].outcome = "filled",
                                                  ![h].applied = @ + 1]
             ELSE /\ handlers' = [handlers EXCEPT
                        ![h].pc = "done",
                        ![h].outcome = "filled",
                        ![h].applied = @ + 1]
                  /\ UNCHANGED <<reports, protective, pending_orders, uuid_next>>
    /\ UNCHANGED <<deliveries, active_orders, exchange_orders, order_stream,
                   fetch_inflight, fetch_calls, cancel_calls>>
    /\ UNCHANGED notExec

\* One turn of the loop in watch_order: watch_orders returned an update of the
\* watched order; it is parsed, stored and handed to the callback.
WatchUpdate(h) ==
    /\ h \in DOMAIN handlers
    /\ handlers[h].pc = "watching"
    /\ LET id == handlers[h].execution.order_id
       IN /\ id \in DOMAIN order_stream
          /\ order_stream[id] # <<>>
          /\ LET execution == parse_order_response(Head(order_stream[id]))
             IN /\ order_stream' = [order_stream EXCEPT ![id] = Tail(@)]
                /\ active_orders' = Put(active_orders, id, execution)
                /\ handlers' =
                      IF execution.status = "filled"
                      THEN [handlers EXCEPT ![h].pc = "fills",
                                            ![h].execution = execution]
                      ELSE IF execution.status \in {"cancelled", "rejected"}
                      THEN [handlers EXCEPT ![h].pc = "done",
                                            ![h].execution = execution,
                                            ![h].outcome = execution.status]
                      ELSE [handlers EXCEPT ![h].execution = execution]
    /\ UNCHANGED <<deliveries, pending_orders, uuid_next, exchange_orders,
                   fetch_inflight, fetch_calls, cancel_calls, reports,
                   position_bus, protective>>
    /\ UNCHANGED notExecLedger

\* watch_orders raises (the stream broke): the except clause around the loop
\* of watch_order passes and watch_order returns; _monitor_order and
\* _handle_order return with it.
WatchFails(h) ==
    /\ h \in DOMAIN handlers
    /\ handlers[h].pc = "watching"
    /\ handlers' = [handlers EXCEPT ![h].pc = "done",
                                    ![h].outcome = "watch_error"]
    /\ UNCHANGED <<deliveries, pending_orders, uuid_next, active_orders,
                   exchange_orders, order_stream, fetch_inflight, fetch_calls,
                   cancel_calls, reports, position_bus, protective>>
    /\ UNCHANGED notExecLedger

\* ------------------------------------------------------------ the exchange
\* An open order moves on at the exchange, which pushes the new state into
\* the order stream.  Closed, canceled and expired orders never change again.
ExchangeUpdate(id, order) ==
    /\ exchange_orders' = [exchange_orders EXCEPT ![id] = order]
    /\ order_stream' = [order_stream EXCEPT ![id] = Append(@, order)]

ExchangeAdvance(id) ==
    /\ id \in DOMAIN exchange_orders
    /\ exchange_orders[id].status = "open"
    /\ LET o == exchange_orders[id]
       IN \/ \E p \in FillPrices :
                ExchangeUpdate(id, [o EXCEPT !.status = "closed",
                                             !.filled = o.amount, !.average = p])
          \/ ExchangeUpdate(id, [o EXCEPT !.status = "canceled"])
          \/ ExchangeUpdate(id, [o EXCEPT !.status = "expired"])
          \/ /\ o.filled + 1 < o.amount
             /\ ExchangeUpdate(id, [o EXCEPT !.filled = o.filled + 1, !.average = 100])
    /\ UNCHANGED <<deliveries, handlers, pending_orders, uuid_next, active_orders,
                   fetch_inflight, fetch_calls, cancel_calls, reports,
                   position_bus, protective>>
    /\ UNCHANGED notExecLedger

\* ------------------------------------------- get_order_status, cancel_order
\* get_order_status awaits fetch_order: the exchange answers with the order
\* as it is when the request is served, and the answer is applied when the
\* coroutine resumes.
GetOrderStatusRequest(id) ==
    /\ id \in DOMAIN exchange_orders
    /\ fetch_calls < MaxFetches
    /\ fetch_calls' = fetch_calls + 1
    /\ fetch_inflight' = fetch_inflight \cup {[call |-> fetch_calls, order |-> exchange_orders[id]]}
    /\ UNCHANGED <<deliveries, handlers, pending_orders, uuid_next, active_orders,
                   exchange_orders, order_stream, cancel_calls, reports,
                   position_bus, protective>>
    /\ UNCHANGED notExecLedger

GetOrderStatusReturns(r) ==
    /\ r \in fetch_inflight
    /\ fetch_inflight' = fetch_inflight \ {r}
    /\ active_orders' = Put(active_orders, r.order.id, parse_order_response(r.order))
    /\ UNCHANGED <<deliveries, handlers, pending_orders, uuid_next,
                   exchange_orders, order_stream, fetch_calls, cancel_calls,
                   reports, position_bus, protective>>
    /\ UNCHANGED notExecLedger

\* fetch_order raised: get_order_status returns None and stores nothing.
GetOrderStatusFails(r) ==
    /\ r \in fetch_inflight
    /\ fetch_inflight' = fetch_inflight \ {r}
    /\ UNCHANGED <<deliveries, handlers, pending_orders, uuid_next, active_orders,
                   exchange_orders, order_stream, fetch_calls, cancel_calls,
                   reports, position_bus, protective>>
    /\ UNCHANGED notExecLedger

\* cancel_order: the exchange cancels an open order and the executor marks its
\* record CANCELLED; for any other order the exchange call raises and the
\* executor returns False.
CancelOrder(id) ==
    /\ id \in DOMAIN exchange_orders
    /\ cancel_calls < MaxCancels
    /\ cancel_calls' = cancel_calls + 1
    /\ IF exchange_orders[id].status = "open"
       THEN /\ ExchangeUpdate(id, [exchange_orders[id] EXCEPT !.status = "canceled"])
            /\ active_orders' =
                  IF id \in DOMAIN active_orders
                  THEN [active_orders EXCEPT ![id].status = "cancelled"]
                  ELSE active_orders
       ELSE UNCHANGED <<exchange_orders, order_stream, active_orders>>
    /\ UNCHANGED <<deliveries, handlers, pending_orders, uuid_next,
                   fetch_inflight, fetch_calls, reports, position_bus, protective>>
    /\ UNCHANGED notExecLedger

Init ==
    /\ LedgerIdle
    /\ ExtIdle
    /\ ExecIdle
    /\ RiskIdle
    /\ StrategyIdle
    /\ LifecycleIdle
    /\ CalcIdle

Next ==
    \/ \E m \in DOMAIN OrderMessages : Deliver(m)
    \/ \E h \in 1..MaxHandlers : PlaceRejected(h)
    \/ \E h \in 1..MaxHandlers : PlaceAccepted(h)
    \/ \E h \in 1..MaxHandlers : ProcessFilled(h)
    \/ \E h \in 1..MaxHandlers : WatchUpdate(h)
    \/ \E h \in 1..MaxHandlers : WatchFails(h)
    \/ \E id \in DOMAIN exchange_orders : ExchangeAdvance(id)
    \/ \E id \in DOMAIN exchange_orders : GetOrderStatusRequest(id)
    \/ \E r \in fetch_inflight : GetOrderStatusReturns(r)
    \/ \E r \in fetch_inflight : GetOrderStatusFails(r)
    \/ \E id \in DOMAIN exchange_orders : CancelOrder(id)

Spec == Init /\ [][Next]_vars

\* ------------------------------------------------------------------------
\* C1: every order the gateway rejected ends with exactly one message on
\* execution.report for it, with status REJECTED and filled_quantity 0.
ReportsOf(h) == {i \in DOMAIN reports : reports[i].handler = h}

C1_RejectedOrderReportedOnce ==
    \A h \in DOMAIN handlers :
        (handlers[h].pc = "done" /\ handlers[h].outcome = "rejected")
            => /\ Cardinality(ReportsOf(h)) = 1
               /\ \A i \in ReportsOf(h) :
                     /\ reports[i].status = "REJECTED"
                     /\ reports[i].filled_quantity = 0

\* ------------------------------------------------------------------------
\* C6: an order record of the executor that has reached FILLED, CANCELLED,
\* REJECTED or EXPIRED keeps that status under every later order-stream
\* update, get_order_status and cancel_order.
C6_TerminalStaysTerminal ==
    \A id \in DOMAIN active_orders :
        active_orders[id].status \in executor_Terminal
            => /\ id \in DOMAIN active_orders'
               /\ active_orders'[id].status = active_orders[id].status

C6_TerminalAbsorbing == [][C6_TerminalStaysTerminal]_vars

\* ------------------------------------------------------------------------
\* C7: once the Execution Core has handled an order to a terminal status,
\* the pending registry no longer holds the entry it made for that order.
HandledToTerminal(h) ==
    /\ handlers[h].pc = "done"
    /\ handlers[h].outcome \in {"rejected", "filled", "cancelled"}

\* No other delivery that registered under the same key is still in flight.
KeyNotShared(h) ==
    \A g \in DOMAIN handlers :
        (g # h /\ handlers[g].order_id = handlers[h].order_id) => handlers[g].pc = "done"

C7_TerminalOrderLeavesPending ==
    \A h \in DOMAIN handlers :
        (HandledToTerminal(h) /\ KeyNotShared(h))
            => handlers[h].order_id \notin DOMAIN pending_orders

\* ------------------------------------------------------------------------
\* C9: a trade.order message delivered twice changes the ledger as one
\* delivery does: its fill is applied to the ledger at most once.
FillsApplied(m) ==
    Cardinality({h \in DOMAIN handlers : handlers[h].msg = m /\ handlers[h].applied > 0})

C9_RedeliveryAppliesFillOnce ==
    \A m \in DOMAIN OrderMessages : FillsApplied(m) <= 1

\* ------------------------------------------------------------------------
\* C20: for an order that came back OPEN or PARTIAL and is monitored, fill
\* processing runs at most once, and only for an order the exchange has
\* filled; and once the monitoring of such an order has ended, an order the
\* exchange has filled has had its fill processed, an error on the order
\* stream notwithstanding.
ExchangeFilled(h) ==
    /\ handlers[h].execution.order_id \in DOMAIN exchange_orders
    /\ exchange_orders[handlers[h].execution.order_id].status = "closed"

C20_MonitoredFillProcessedOnce ==
    \A h \in DOMAIN handlers :
        handlers[h].monitored =>
            /\ handlers[h].applied <= 1
            /\ handlers[h].applied = 1 => ExchangeFilled(h)
            /\ (handlers[h].pc = "done" /\ ExchangeFilled(h))
                   => handlers[h].applied = 1

\* ------------------------------------------------------------------------
\* C21: fill processing of a FILLED order runs through all its steps: once
\* it has ended, the fill has been applied to the ledger, one execution
\* report for the order is on execution.report, a stop-loss and a
\* take-profit order stand on the opposite side with the filled quantity
\* when the order carries them, and the pending registry has lost the entry.
ProtectiveFor(h, kind, price) ==
    [kind |-> kind, symbol |-> handlers[h].execution.symbol,
     side |-> IF handlers[h].execution.side = "buy" THEN "sell" ELSE "buy",
     quantity |-> handlers[h].execution.filled_quantity, price |-> price]

C21_FillRunsAllSteps ==
    \A h \in DOMAIN handlers :
        (handlers[h].pc = "done" /\ handlers[h].outcome = "filled")
            => /\ handlers[h].applied = 1
               /\ Cardinality(ReportsOf(h)) = 1
               /\ OrderMessages[handlers[h].msg].stop_loss # 0
                     => ProtectiveFor(h, "stop_loss",
                            OrderMessages[handlers[h].msg].stop_loss) \in protective
               /\ OrderMessages[handlers[h].msg].take_profit # 0
                     => ProtectiveFor(h, "take_profit",
                            OrderMessages[handlers[h].msg].take_profit) \in protective
               /\ KeyNotShared(h) => handlers[h].order_id \notin DOMAIN pending_orders

\* ========================================================================
\* ExecutionAgent.execute: the periodic refresh of the open positions
\* ========================================================================
MaxRefreshes == 1

\* What _fetch_current_price may return (0: None, the ticker call failed).
TickerPrices == {0, 100, 120}

\* The fields of a Position object that a fill changes.
seen_of(position) ==
    [quantity |-> position.quantity, realized_pnl |-> position.realized_pnl,
     status |-> position.status]

\* The loop of execute() turns to the next position of its list, or returns.
monitor_next(todo, L) ==
    [pc |-> IF todo = <<>> THEN "idle" ELSE "fetching",
     todo |-> todo,
     seen |-> IF todo = <<>> THEN NoPositionSeen
              ELSE seen_of(position_object(L, Head(todo)))]

SetMonitor(r) ==
    /\ monitor_pc' = r.pc
    /\ monitor_todo' = r.todo
    /\ monitor_seen' = r.seen

\* list(self.positions.values()) in insertion order, the order of the
\* timestamps in the ids.
RECURSIVE positions_in_order(_)
positions_in_order(ids) ==
    IF ids = {} THEN <<>>
    ELSE LET id == CHOOSE i \in ids : \A j \in ids : i[3] <= j[3]
         IN <<id>> \o positions_in_order(ids \ {id})

\* What the refresh hands to the store or to the bus: the Position object it
\* holds, as it is at that moment, next to what it was when the refresh of
\* this position began.
monitor_write(step, position, current_price) ==
    [step |-> step, position_id |-> position.position_id,
     quantity |-> position.quantity, realized_pnl |-> position.realized_pnl,
     status |-> position.status, current_price |-> current_price,
     seen |-> monitor_seen, run |-> monitor_runs]

\* "if current_price is None: ... continue" with a return in the place of
\* the continue: the tick ends at the first failed fetch.
failed_to_fetch_price_Return(todo) == <<>>

\* "if current_price is None: ... continue": the positions the loop still
\* has to visit after a failed fetch.
failed_to_fetch_price(todo) == Tail(todo)

\* PeriodicAgent.run calls execute(): get_all_positions, and the first
\* _fetch_current_price is awaited.
MonitorExecute ==
    /\ monitor_pc = "idle"
    /\ monitor_runs < MaxRefreshes
    /\ monitor_runs' = monitor_runs + 1
    /\ SetMonitor(monitor_next(positions_in_order(DOMAIN positions), CurLedger))
    /\ monitor_tick' = [list |-> positions_in_order(DOMAIN positions), failed |-> {}]
    /\ UNCHANGED <<monitor_writes, ledgerVars, position_bus>>
    /\ UNCHANGED notMonitor

\* _fetch_current_price returned: None skips the position; a price goes
\* through update_position_price and _update_position_in_db is called with the
\* Position object, whose UPDATE is then awaited.
MonitorPriceFetched(current_price) ==
    /\ monitor_pc = "fetching"
    /\ LET id == Head(monitor_todo)
           L == update_position_price(CurLedger, id, current_price)
       IN IF current_price = 0
          THEN /\ SetMonitor(monitor_next(failed_to_fetch_price(monitor_todo),
                                           CurLedger))
               /\ monitor_tick' = [monitor_tick EXCEPT !.failed = @ \cup {id}]
               /\ UNCHANGED <<positions, closed_positions, monitor_writes>>
          ELSE /\ SetLedger(L)
               /\ monitor_pc' = "persisting"
               /\ monitor_writes' = Append(monitor_writes,
                     monitor_write("persist", position_object(L, id), current_price))
               /\ UNCHANGED <<monitor_todo, monitor_seen, monitor_tick>>
    /\ UNCHANGED <<monitor_runs, now, ledger_ops, ledger_last, position_bus>>
    /\ UNCHANGED notMonitor

\* The UPDATE returned: the PositionUpdate is built from the Position object
\* and published, and the loop goes on.
MonitorPersisted ==
    /\ monitor_pc = "persisting"
    /\ LET id == Head(monitor_todo)
           position == position_object(CurLedger, id)
           current_price == monitor_writes[Len(monitor_writes)].current_price
       IN /\ position_bus' = Append(position_bus,
                [symbol |-> position.symbol, side |-> position.side,
                 quantity |-> position.quantity,
                 current_price |-> current_price,
                 position_id |-> id])
          /\ monitor_writes' = Append(monitor_writes,
                monitor_write("publish", position, current_price))
    /\ SetMonitor(monitor_next(Tail(monitor_todo), CurLedger))
    /\ UNCHANGED <<monitor_runs, monitor_tick, ledgerVars>>
    /\ UNCHANGED notMonitor

\* The order handling of the Execution Core next to its periodic task: both
\* run on one event loop and take turns at their awaits.
MonitorNext ==
    \/ \E m \in DOMAIN OrderMessages : Deliver(m)
    \/ \E h \in 1..MaxHandlers : PlaceAccepted(h)
    \/ \E h \in 1..MaxHandlers : ProcessFilled(h)
    \/ MonitorExecute
    \/ \E current_price \in TickerPrices : MonitorPriceFetched(current_price)
    \/ MonitorPersisted

SpecMonitor == Init /\ [][MonitorNext]_vars

\* The periodic task next to fills on both symbols: each fill is one call of
\* _update_position, of quantity 1 at the price 100.
TickNext ==
    \/ \E s \in Symbols, side \in ExecutionSides : Fill(s, side, 1, 100)
    \/ MonitorExecute
    \/ \E current_price \in TickerPrices : MonitorPriceFetched(current_price)
    \/ MonitorPersisted

SpecTick == Init /\ [][TickNext]_vars

\* ------------------------------------------------------------------------
\* C22: fill application and price refresh of a position do not interleave:
\* whatever the refresh persists or publishes for a position is the position
\* as no fill handler has changed or closed it since the refresh of that
\* position began.
C22_RefreshNotInterleaved ==
    \A i \in DOMAIN monitor_writes :
        /\ monitor_writes[i].status = monitor_writes[i].seen.status
        /\ monitor_writes[i].quantity = monitor_writes[i].seen.quantity
        /\ monitor_writes[i].realized_pnl = monitor_writes[i].seen.realized_pnl

\* The sharpest case of it: the refresh never persists or publishes a
\* position that was closed while the refresh awaited its price.
C22_RefreshSkipsClosed ==
    \A i \in DOMAIN monitor_writes : monitor_writes[i].status # "closed"

\* The whole Execution Core: the order handlers, the callbacks of monitored
\* orders, the exchange and the periodic task, taking turns at their awaits.
CoreNext ==
    \/ \E m \in DOMAIN OrderMessages : Deliver(m)
    \/ \E h \in 1..MaxHandlers : PlaceRejected(h)
    \/ \E h \in 1..MaxHandlers : PlaceAccepted(h)
    \/ \E h \in 1..MaxHandlers : ProcessFilled(h)
    \/ \E h \in 1..MaxHandlers : WatchUpdate(h)
    \/ \E h \in 1..MaxHandlers : WatchFails(h)
    \/ \E id \in DOMAIN exchange_orders : ExchangeAdvance(id)
    \/ \E id \in DOMAIN exchange_orders : GetOrderStatusRequest(id)
    \/ \E r \in fetch_inflight : GetOrderStatusReturns(r)
    \/ \E r \in fetch_inflight : GetOrderStatusFails(r)
    \/ \E id \in DOMAIN exchange_orders : CancelOrder(id)
    \/ MonitorExecute
    \/ \E current_price \in TickerPrices : MonitorPriceFetched(current_price)
    \/ MonitorPersisted

SpecCore == Init /\ [][CoreNext]_vars

\* ------------------------------------------------------------------------
\* C39: in every reachable state of the Execution Core's position ledger
\* there is at most one open position per symbol, under any interleaving of
\* order handlers, monitored-order callbacks and periodic ticks.
C39_OneOpenPositionPerSymbol ==
    \A a \in DOMAIN positions : \A b \in DOMAIN positions :
        positions[a].symbol = positions[b].symbol => a = b

\* Reached: a fill handled in the callback of a monitored order was added to
\* the position an earlier fill had opened, and a periodic tick has refreshed
\* and published that position.
C39_Witness ==
    /\ \E h \in DOMAIN handlers : handlers[h].monitored /\ handlers[h].applied > 0
    /\ \E id \in DOMAIN positions :
          /\ positions[id].quantity > positions[id].initial_quantity
          /\ \E i \in DOMAIN monitor_writes :
                /\ monitor_writes[i].position_id = id
                /\ monitor_writes[i].step = "publish"

\* ------------------------------------------------------------------------
\* C37: in a periodic monitoring tick a gateway error while fetching the
\* price of one open position does not stop the tick: the failed fetch
\* leaves the ledger as it is, and when the tick has ended every other
\* position of its list has been persisted and published in this tick, at
\* the price fetched for it.
WritesOf(id, step) ==
    {i \in DOMAIN monitor_writes :
        /\ monitor_writes[i].run = monitor_runs
        /\ monitor_writes[i].position_id = id
        /\ monitor_writes[i].step = step}

TickEnded == monitor_pc = "idle" /\ monitor_runs > 0

C37_OthersRefreshed ==
    TickEnded =>
        \A k \in DOMAIN monitor_tick.list :
            LET id == monitor_tick.list[k]
            IN  id \notin monitor_tick.failed
                    => /\ WritesOf(id, "persist") # {}
                       /\ WritesOf(id, "publish") # {}

C37_FetchStep ==
    /\ monitor_tick'.failed # monitor_tick.failed
          => UNCHANGED <<positions, closed_positions>>
    /\ (monitor_pc = "fetching" /\ monitor_pc' = "persisting"
            /\ Head(monitor_todo) \in DOMAIN positions)
          => positions'[Head(monitor_todo)].current_price
                = monitor_writes'[Len(monitor_writes')].current_price

C37_GatewayErrorSkipsOnePosition ==
    /\ []C37_OthersRefreshed
    /\ [][C37_FetchStep]_vars

\* Reached: a tick over two open positions has ended; the price fetch of the
\* first failed and the second was persisted and published.
C37_Witness ==
    /\ TickEnded
    /\ Len(monitor_tick.list) = 2
    /\ monitor_tick.failed = {monitor_tick.list[1]}
    /\ WritesOf(monitor_tick.list[2], "publish") # {}
    /\ monitor_tick.list[1] \in DOMAIN positions

\* ========================================================================
\* Risk Core: configuration (src/agents/risk_manager/agent.py, __init__)
\* ========================================================================
\* The constructor's fractions are written in basis points and read with
\* Bps; money and computed fractions are exact rationals.  Prices are whole
\* dollars.
account_balance == 10000
max_portfolio_risk == 2000
max_position_risk == 500
min_confidence == 6000
position_sizing_method == "hybrid"
stop_loss_method == "atr"

\* min_rr_ratio = 1.5
min_rr_ratio == <<3, 2>>

max_position_pct(balance) ==
    IF RatLess(balance, Whole(100)) THEN Bps(8000)
    ELSE IF RatLess(balance, Whole(1000)) THEN Bps(3000) ELSE Bps(1000)

RatioLess(a, b) == a[1] * b[2] < b[1] * a[2]

\* ========================================================================
\* StopLossManager (src/agents/risk_manager/stop_loss_placement.py)
\* ========================================================================
ATRStopLoss_calculate(current_price, atr, side) ==
    LET stop_distance == atr * 2
    IN IF side = "BUY"
       THEN <<current_price - stop_distance, current_price + stop_distance * 2>>
       ELSE <<current_price + stop_distance, current_price - stop_distance * 2>>

\* stop_pct 0.05, rr_ratio 2.0
PercentageStopLoss_calculate(current_price, side) ==
    IF side = "BUY"
    THEN <<(current_price * 95) \div 100, (current_price * 110) \div 100>>
    ELSE <<(current_price * 105) \div 100, (current_price * 90) \div 100>>

calculate_stops(current_price, side, method, atr, custom_stop, custom_tp) ==
    LET levels ==
            IF custom_stop # 0 /\ custom_tp # 0
            THEN <<custom_stop, custom_tp, "Custom Levels">>
            ELSE IF method = "atr" /\ atr # 0
            THEN LET st == ATRStopLoss_calculate(current_price, atr, side)
                 IN <<st[1], st[2], "ATR-based">>
            ELSE LET st == PercentageStopLoss_calculate(current_price, side)
                 IN <<st[1], st[2], "Fixed Percentage">>
        stop_distance == Abs(current_price - levels[1])
        tp_distance == Abs(levels[2] - current_price)
    IN [stop_loss |-> levels[1],
        take_profit |-> levels[2],
        stop_loss_pct |-> Rat(stop_distance, current_price),
        reward_risk_ratio |-> IF stop_distance > 0
                              THEN Rat(tp_distance, stop_distance) ELSE Whole(1),
        method |-> levels[3]]

\* ========================================================================
\* PositionSizer (src/agents/risk_manager/position_sizing.py)
\* ========================================================================
max_kelly_fraction == <<1, 4>>
min_kelly_fraction == <<1, 100>>
confidence_threshold == <<1, 2>>

\* (mutant: the Kelly formula without the clamps)
KellyCriterion_calculate_Unclamped(win_probability, reward_risk_ratio) ==
    IF win_probability[1] <= 0 \/ RatLeq(Whole(1), win_probability)
    THEN min_kelly_fraction
    ELSE IF reward_risk_ratio[1] <= 0
    THEN min_kelly_fraction
    ELSE RatDiv(RatSub(RatMul(win_probability, reward_risk_ratio),
                       RatSub(Whole(1), win_probability)),
                reward_risk_ratio)

KellyCriterion_calculate(win_probability, reward_risk_ratio) ==
    IF win_probability[1] <= 0 \/ RatLeq(Whole(1), win_probability)
    THEN min_kelly_fraction
    ELSE IF reward_risk_ratio[1] <= 0
    THEN min_kelly_fraction
    ELSE LET lose_probability == RatSub(Whole(1), win_probability)
             kelly_fraction ==
                 RatDiv(RatSub(RatMul(win_probability, reward_risk_ratio),
                               lose_probability),
                        reward_risk_ratio)
             constrained == RatMin(max_kelly_fraction,
                                   RatMax(min_kelly_fraction, kelly_fraction))
         IN IF RatLess(win_probability, confidence_threshold)
            THEN RatMul(constrained, <<1, 2>>) ELSE constrained

\* risk_per_trade 0.02, max_position_size 0.10
FixedFractional_calculate(balance, stop_loss_pct) ==
    IF stop_loss_pct[1] <= 0
    THEN RatMul(balance, <<1, 10>>)
    ELSE RatMin(RatDiv(RatMul(balance, <<1, 50>>), stop_loss_pct),
                RatMul(balance, <<1, 10>>))

\* base_risk 0.02, atr_multiplier 2.0
VolatilityBased_calculate(balance, current_price, atr) ==
    RatDiv(RatMul(balance, <<1, 50>>), Rat(atr * 2, current_price))

\* quantity = round(position_size / current_price, 8): the quotient itself,
\* which the rounding moves by less than 0.00000001 base units
quantity_of(position_size, current_price) ==
    RatDiv(position_size, Whole(current_price))

\* win_probability = max(0.51, min(0.70, 0.50 + (confidence - 0.5) * 0.3))
win_probability_of(confidence) ==
    RatMax(<<51, 100>>,
           RatMin(<<7, 10>>,
                  RatAdd(<<1, 2>>, RatMul(RatSub(confidence, <<1, 2>>), <<3, 10>>))))

\* The size a method proposes and its label, before the caps.
method_size(balance, max_pct, current_price, confidence, stop_loss_pct, reward_risk_ratio, atr, method) ==
    LET kelly_size ==
            RatMul(balance, KellyCriterion_calculate(win_probability_of(confidence),
                                                     reward_risk_ratio))
        fixed_size == FixedFractional_calculate(balance, stop_loss_pct)
        max_allowed == RatMul(balance, max_pct)
        conservative_size == RatMin(kelly_size, fixed_size)
    IN CASE method = "kelly" -> <<kelly_size, "Kelly Criterion">>
         [] method = "fixed" -> <<fixed_size, "Fixed Fractional">>
         [] method = "volatility" /\ atr # 0 ->
               <<VolatilityBased_calculate(balance, current_price, atr),
                 "Volatility-Based (ATR)">>
         [] method = "hybrid" ->
               IF RatLess(conservative_size, max_allowed)
                  /\ RatLeq(max_allowed, RatMul(balance, <<4, 5>>))
               THEN <<max_allowed, "Hybrid (Kelly + Fixed, max-adjusted)">>
               ELSE <<conservative_size, "Hybrid (Kelly + Fixed)">>
         [] OTHER -> <<fixed_size, "Fixed Fractional (default)">>

\* (mutant: no maximum position size)
cap_position_size_Off(position_size, max_position_size) == position_size

\* Apply maximum position size constraint
cap_position_size(position_size, max_position_size) ==
    IF RatLess(max_position_size, position_size) THEN max_position_size ELSE position_size

\* The caps and the roundings, given the proposed size.  raised: the
\* division by a zero stop_loss_pct raises ZeroDivisionError.
size_within_limits(balance, max_pct, max_total_risk, current_price, stop_loss_pct, current_risk, sized, ties) ==
    LET max_position_size == RatMul(balance, max_pct)
        capped == cap_position_size(sized[1], max_position_size)
        \* Check portfolio risk limit
        new_total_risk ==
            RatAdd(current_risk, RatDiv(RatMul(capped, stop_loss_pct), balance))
        over == RatLess(max_total_risk, new_total_risk)
        raised == over /\ stop_loss_pct[1] = 0
        available_risk == RatSub(max_total_risk, current_risk)
        position_size ==
            IF ~over THEN capped
            ELSE IF raised THEN Whole(0)
            ELSE RatDiv(RatMul(available_risk, balance), stop_loss_pct)
    IN [quantity |-> quantity_of(position_size, current_price),
        size_usd |-> round2(position_size, ties[1]),
        risk_amount |-> round2(RatMul(round2(position_size, ties[1]), stop_loss_pct),
                               ties[2]),
        method |-> IF over THEN <<sized[2], "(risk-adjusted)">> ELSE <<sized[2]>>,
        risk_adjusted |-> over,
        new_total_risk |-> new_total_risk,
        raised |-> raised]

calculate_position_size(balance, max_pct, max_total_risk, current_price, confidence, stop_loss, take_profit, atr, method, current_risk, ties) ==
    LET reward_risk_ratio ==
            IF stop_loss # 0 /\ take_profit # 0 /\ Abs(current_price - stop_loss) > 0
            THEN Rat(Abs(take_profit - current_price), Abs(current_price - stop_loss))
            ELSE <<3, 2>>
        stop_loss_pct ==
            IF stop_loss # 0 THEN Rat(Abs(current_price - stop_loss), current_price)
            ELSE IF atr # 0 THEN Rat(atr * 2, current_price)
            ELSE <<1, 20>>
    IN size_within_limits(balance, max_pct, max_total_risk, current_price,
                          stop_loss_pct, current_risk,
                          method_size(balance, max_pct, current_price, confidence,
                                      stop_loss_pct, reward_risk_ratio, atr, method),
                          ties)

\* ========================================================================
\* TradeValidator (src/agents/risk_manager/risk_assessment.py)
\* ========================================================================
\* symbol.split("/")[0]
base_currency(symbol) ==
    CASE symbol = "BTC/USDT" -> "BTC"
      [] symbol = "ETH/USDT" -> "ETH"
      [] OTHER -> symbol

RECURSIVE same_class_exposure(_, _)
same_class_exposure(existing_positions, symbol) ==
    IF existing_positions = <<>>
    THEN Whole(0)
    ELSE RatAdd(IF base_currency(Head(existing_positions).symbol) = base_currency(symbol)
                THEN Head(existing_positions).size_usd ELSE Whole(0),
                same_class_exposure(Tail(existing_positions), symbol))

\* The checks that reject, given what validate_trade computed.
\* max_correlation_risk 0.30
violated_checks(confidence, reward_risk_ratio, trade_risk_pct, new_portfolio_risk, has_positions, correlation_pct) ==
    (IF RatLess(confidence, Bps(min_confidence)) THEN {"Low confidence"} ELSE {})
    \cup (IF RatLess(reward_risk_ratio, min_rr_ratio) THEN {"Poor R/R"} ELSE {})
    \cup (IF RatLess(Bps(max_position_risk), trade_risk_pct)
          THEN {"Excessive trade risk"} ELSE {})
    \cup (IF RatLess(Bps(max_portfolio_risk), new_portfolio_risk)
          THEN {"Portfolio risk limit"} ELSE {})
    \cup (IF has_positions /\ RatLess(<<3, 10>>, correlation_pct)
          THEN {"High correlation exposure"} ELSE {})

\* (mutant: the sum of the deltas, not capped)
risk_score_of_Uncapped(rejections) ==
    (IF "Low confidence" \in rejections THEN 3000 ELSE 0)
    + (IF "Poor R/R" \in rejections THEN 2000 ELSE 0)
    + (IF "Excessive trade risk" \in rejections THEN 3000 ELSE 0)
    + (IF "Portfolio risk limit" \in rejections THEN 4000 ELSE 0)
    + (IF "High correlation exposure" \in rejections THEN 2000 ELSE 0)

\* risk_score, in basis points: min(1.0, the sum of the deltas).
risk_score_of(rejections) ==
    Min2(10000,
         (IF "Low confidence" \in rejections THEN 3000 ELSE 0)
         + (IF "Poor R/R" \in rejections THEN 2000 ELSE 0)
         + (IF "Excessive trade risk" \in rejections THEN 3000 ELSE 0)
         + (IF "Portfolio risk limit" \in rejections THEN 4000 ELSE 0)
         + (IF "High correlation exposure" \in rejections THEN 2000 ELSE 0))

assessment_of(position_size, risk_amount, new_portfolio_risk, rejections) ==
    [approved |-> rejections = {},
     risk_score |-> risk_score_of(rejections),
     position_size |-> position_size,
     max_loss |-> risk_amount,
     var_contribution |-> RatMul(risk_amount, <<165, 100>>),
     portfolio_risk_after |-> new_portfolio_risk,
     rejection_reason |-> rejections]

validate_trade(symbol, confidence, position_size, risk_amount, reward_risk_ratio, current_risk, balance, existing_positions) ==
    assessment_of(position_size, risk_amount,
        RatAdd(current_risk, RatDiv(risk_amount, balance)),
        violated_checks(confidence, reward_risk_ratio, RatDiv(risk_amount, balance),
            RatAdd(current_risk, RatDiv(risk_amount, balance)),
            existing_positions # <<>>,
            RatDiv(same_class_exposure(existing_positions, symbol), balance)))

\* ========================================================================
\* RiskManagerAgent (src/agents/risk_manager/agent.py)
\* ========================================================================
fallback_prices(symbol) ==
    CASE symbol = "BTC/USDT" -> 50000
      [] symbol = "ETH/USDT" -> 2500
      [] symbol = "SOL/USDT" -> 150
      [] OTHER -> 1000

\* What the query "SELECT last(close) as price FROM ohlcv ..." of
\* _get_market_data may answer with: no row (0) or the latest close.
StorePrices == {0, 120}

\* The "price" entry of the dict _get_market_data returns: the latest price
\* of the time-series store, 50000.0 when the store has none.
get_market_data_price(store_price) ==
    IF store_price = 0 THEN 50000 ELSE store_price

\* The fields a RiskAssessment message must be given (protocol.py 141-153 and
\* BaseMessage): pydantic raises ValidationError when one is missing.
RiskAssessment_required ==
    {"source_agent", "trade_intent_id", "symbol", "approved", "risk_score",
     "position_size", "var_estimate", "max_loss"}

RiskAssessment_validates(fields, risk_score) ==
    /\ RiskAssessment_required \subseteq fields
    /\ risk_score >= 0 /\ risk_score <= 10000

\* The keyword arguments _handle_trade_intent passes for a rejection.
rejection_msg_fields ==
    {"symbol", "risk_score", "approved", "rejection_reason", "var_estimate", "metadata"}

\* The keyword arguments _create_order passes to Order.
create_order(trade_intent, position_size, stop_levels, t, current_price) ==
    [task |-> t,
     symbol |-> trade_intent.symbol,
     side |-> trade_intent.side,
     order_type |-> "MARKET",
     quantity |-> position_size.quantity,
     price |-> 0,
     stop_loss |-> stop_levels.stop_loss,
     take_profit |-> stop_levels.take_profit,
     risk_approved |-> TRUE,
     \* Order(...) is built without correlation_id: the field keeps its default
     correlation_id |-> 0,
     size_usd |-> position_size.size_usd,
     risk_amount |-> position_size.risk_amount,
     \* history, not part of the message: the price the levels were judged at
     current_price |-> current_price]

RiskInflight == {t \in DOMAIN risk_tasks : risk_tasks[t].pc # "done"}

\* wrapped_handler + _handle_trade_intent up to "await _get_market_data".
RiskDeliver(i) ==
    /\ Len(risk_tasks) < MaxIntents
    /\ Cardinality(RiskInflight) < MaxRiskInflight
    /\ LET message == TradeIntents[i]
           current_price == IF message.expected_price = 0
                            THEN fallback_prices(message.symbol)
                            ELSE message.expected_price
       IN risk_tasks' = Append(risk_tasks,
             [intent |-> i, pc |-> "market_data", current_price |-> current_price,
              outcome |-> "none", order |-> <<>>, portfolio_risk_after |-> <<0, 1>>,
              \* history: what the store answered the price query with, and
              \* the "price" entry of the dict _get_market_data returned
              store_price |-> 0, market_price |-> 0])
    /\ UNCHANGED <<current_portfolio_risk, active_positions, db_positions, orders_out,
                   rejections_out>>
    /\ UNCHANGED notRisk

\* From the answer of _get_market_data to "await _can_execute_order": stops,
\* size and validation against the portfolio risk as it is now.  A rejected
\* trade goes on to build its rejection message, without a further read of
\* the agent's state, and the handler ends.
RiskAssess(t) ==
    /\ t \in DOMAIN risk_tasks
    /\ risk_tasks[t].pc = "market_data"
    /\ \E atr \in AtrValues, ties \in Ties, store_price \in StorePrices :
          LET message == TradeIntents[risk_tasks[t].intent]
              current_price == risk_tasks[t].current_price
              market_data_price == get_market_data_price(store_price)
              stop_levels == calculate_stops(current_price, message.side,
                                 stop_loss_method, atr,
                                 message.stop_loss, message.take_profit)
              position_size == calculate_position_size(
                                 Whole(account_balance),
                                 max_position_pct(Whole(account_balance)),
                                 Bps(max_portfolio_risk), current_price,
                                 Bps(message.confidence),
                                 stop_levels.stop_loss, stop_levels.take_profit, atr,
                                 position_sizing_method, current_portfolio_risk, ties)
              risk_assessment == validate_trade(
                                 message.symbol, Bps(message.confidence),
                                 position_size.size_usd, position_size.risk_amount,
                                 stop_levels.reward_risk_ratio, current_portfolio_risk,
                                 Whole(account_balance), active_positions)
          IN IF position_size.raised
             THEN /\ risk_tasks' = [risk_tasks EXCEPT ![t].pc = "done",
                                                      ![t].outcome = "raised",
                                                      ![t].market_price = market_data_price,
                                                      ![t].store_price = store_price]
                  /\ UNCHANGED rejections_out
             ELSE IF risk_assessment.approved
             THEN /\ risk_tasks' = [risk_tasks EXCEPT
                        ![t].pc = "executing",
                        ![t].market_price = market_data_price,
                        ![t].store_price = store_price,
                        ![t].order = <<create_order(message, position_size,
                                                    stop_levels, t, current_price)>>,
                        ![t].portfolio_risk_after = risk_assessment.portfolio_risk_after]
                  /\ UNCHANGED rejections_out
             ELSE /\ risk_tasks' = [risk_tasks EXCEPT ![t].pc = "done",
                                                      ![t].outcome = "rejected",
                                                      ![t].market_price = market_data_price,
                                                      ![t].store_price = store_price]
                  /\ rejections_out' =
                        IF RiskAssessment_validates(rejection_msg_fields,
                                                    risk_assessment.risk_score)
                        THEN Append(rejections_out,
                                    [task |-> t, symbol |-> message.symbol,
                                     approved |-> FALSE,
                                     risk_score |-> risk_assessment.risk_score,
                                     rejection_reason |-> risk_assessment.rejection_reason])
                        ELSE rejections_out
    /\ UNCHANGED <<current_portfolio_risk, active_positions, db_positions, orders_out>>
    /\ UNCHANGED notRisk

\* _can_execute_order answered: a blocked order ends the handler; otherwise
\* the order is built and published and the portfolio risk is overwritten
\* with the value the validator computed.
RiskFinish(t) ==
    /\ t \in DOMAIN risk_tasks
    /\ risk_tasks[t].pc = "executing"
    /\ \E can_execute \in BOOLEAN :
          IF ~can_execute
          THEN /\ risk_tasks' = [risk_tasks EXCEPT ![t].pc = "done",
                                                   ![t].outcome = "blocked"]
               /\ UNCHANGED <<orders_out, current_portfolio_risk>>
          ELSE /\ risk_tasks' = [risk_tasks EXCEPT ![t].pc = "done",
                                                   ![t].outcome = "approved"]
               /\ orders_out' = Append(orders_out, risk_tasks[t].order[1])
               /\ current_portfolio_risk' = risk_tasks[t].portfolio_risk_after
    /\ UNCHANGED <<active_positions, db_positions, rejections_out>>
    /\ UNCHANGED notRisk

\* _load_portfolio_state: the portfolio risk of the OPEN rows of the
\* positions table.
RECURSIVE total_risk(_)
total_risk(rows) ==
    IF rows = <<>>
    THEN Whole(0)
    ELSE RatAdd(IF Head(rows).stop_loss # 0
                THEN RatMul(Head(rows).size_usd,
                            Rat(Abs(Head(rows).entry_price - Head(rows).stop_loss),
                                Head(rows).entry_price))
                ELSE Whole(0),
                total_risk(Tail(rows)))

load_portfolio_risk(rows) == RatDiv(total_risk(rows), Whole(account_balance))

\* The table as a query finds it: the rows present at start-up and the
\* positions the first k published orders have opened since.
positions_table(k) ==
    db_positions \o
    [i \in 1..k |-> [symbol |-> orders_out[i].symbol,
                     size_usd |-> orders_out[i].size_usd,
                     entry_price |-> orders_out[i].current_price,
                     stop_loss |-> orders_out[i].stop_loss]]

\* _handle_position_update.
HandlePositionUpdate ==
    /\ RiskInflight # {}
    /\ \E k \in 0..Len(orders_out) :
          /\ active_positions' = positions_table(k)
          /\ current_portfolio_risk' = load_portfolio_risk(positions_table(k))
    /\ UNCHANGED <<db_positions, risk_tasks, orders_out, rejections_out>>
    /\ UNCHANGED notRisk

\* A position an earlier run left open: $1000 of SOL bought at 100 with its
\* stop at 50, that is 5% of the account at risk.
start_row == [symbol |-> "SOL/USDT", size_usd |-> Whole(1000), entry_price |-> 100,
              stop_loss |-> 50]

\* After initialize(): _load_portfolio_state has read the rows that earlier
\* runs left open in the positions table.
RiskInit ==
    /\ LedgerIdle
    /\ ExtIdle
    /\ ExecIdle
    /\ StrategyIdle
    /\ LifecycleIdle
    /\ CalcIdle
    /\ \E n \in {0, MaxStartRows - 1, MaxStartRows} :
          /\ db_positions = [i \in 1..n |-> start_row]
          /\ active_positions = db_positions
          /\ current_portfolio_risk = load_portfolio_risk(db_positions)
    /\ risk_tasks = <<>>
    /\ orders_out = <<>>
    /\ rejections_out = <<>>

RiskNext ==
    \/ \E i \in DOMAIN TradeIntents : RiskDeliver(i)
    \/ \E t \in 1..MaxIntents : RiskAssess(t)
    \/ \E t \in 1..MaxIntents : RiskFinish(t)
    \/ HandlePositionUpdate

SpecRisk == RiskInit /\ [][RiskNext]_vars

\* ------------------------------------------------------------------------
\* C36: price selection in the Risk Core follows the documented fallback
\* order: intent.expected_price if it is not 0; otherwise the latest price of
\* the time-series store when it has one; the configured fallback constant
\* only when both are unavailable.
price_as_documented(message, store_price) ==
    IF message.expected_price # 0 THEN message.expected_price
    ELSE IF store_price # 0 THEN store_price
    ELSE fallback_prices(message.symbol)

C36_PriceFallbackOrder ==
    \A t \in DOMAIN risk_tasks :
        risk_tasks[t].pc # "market_data"
            => risk_tasks[t].current_price
                  = price_as_documented(TradeIntents[risk_tasks[t].intent],
                                        risk_tasks[t].store_price)

\* What does hold: the store's price is never the price a trade is judged
\* at; without an expected price it is the fallback constant.
C36_StorePriceUnused ==
    \A t \in DOMAIN risk_tasks :
        LET message == TradeIntents[risk_tasks[t].intent]
        IN  risk_tasks[t].current_price
                = (IF message.expected_price # 0 THEN message.expected_price
                   ELSE fallback_prices(message.symbol))

\* ------------------------------------------------------------------------
\* C2: every Order published on trade.order has quantity > 0 and
\* risk_approved = true, whatever the portfolio risk was when it was sized.
C2_PublishedOrdersPositive ==
    \A i \in DOMAIN orders_out :
        /\ orders_out[i].quantity[1] > 0
        /\ orders_out[i].risk_approved

\* ------------------------------------------------------------------------
\* C3: an approved BUY order with a stop-loss has stop_loss < price used <
\* take_profit, an approved SELL order take_profit < price used < stop_loss.
C3_StopsBracketPrice ==
    \A i \in DOMAIN orders_out :
        orders_out[i].stop_loss # 0 =>
            IF orders_out[i].side = "BUY"
            THEN /\ orders_out[i].stop_loss < orders_out[i].current_price
                 /\ orders_out[i].current_price < orders_out[i].take_profit
            ELSE /\ orders_out[i].take_profit < orders_out[i].current_price
                 /\ orders_out[i].current_price < orders_out[i].stop_loss

\* ------------------------------------------------------------------------
\* C8: every Trade Intent the Risk Core has finished handling produced
\* exactly one message: an Order on trade.order or a rejection on
\* trade.rejection.
OutcomesOf(t) ==
    Cardinality({i \in DOMAIN orders_out : orders_out[i].task = t})
    + Cardinality({i \in DOMAIN rejections_out : rejections_out[i].task = t})

C8_OneOutcomePerIntent ==
    \A t \in DOMAIN risk_tasks :
        risk_tasks[t].pc = "done" => OutcomesOf(t) = 1

\* ========================================================================
\* The Risk Core and what the Execution Core reports back to it
\* (risk_manager/agent.py setup, _handle_position_update; execution/agent.py
\* _process_rejected_order, _update_position)
\* ========================================================================

\* The topics RiskManagerAgent.setup subscribes a handler to.
risk_subscribed_topics == {"trade.intent", "position.update"}

\* The OPEN rows of the positions table: those present at start-up and one
\* for every order that was filled.
reserve_table ==
    LET filled == SelectSeq([i \in DOMAIN orders_out |-> i],
                            LAMBDA i : i \in orders_filled)
    IN db_positions \o
       [j \in DOMAIN filled |->
           [symbol |-> orders_out[filled[j]].symbol,
            size_usd |-> orders_out[filled[j]].size_usd,
            entry_price |-> orders_out[filled[j]].current_price,
            stop_loss |-> orders_out[filled[j]].stop_loss]]

Undecided == DOMAIN orders_out \ (orders_rejected \cup orders_filled)

\* The Execution Core places order i and the exchange rejects it:
\* _process_rejected_order publishes a REJECTED report on execution.report
\* when the report can be built.  The Risk Core has no subscription to
\* execution.report and no handler for it: nothing of it changes.
ExchangeRejects(i) ==
    /\ i \in Undecided
    /\ orders_rejected' = orders_rejected \cup {i}
    /\ LET side == upper(lower(orders_out[i].side))
           published == ExecutionReport_validates(side, "REJECTED")
       IN reports' =
             IF published
             THEN Append(reports, [handler |-> i, order_id |-> <<"rejected", i>>,
                                   side |-> side, status |-> "REJECTED",
                                   filled_quantity |-> 0, correlation_id |-> 0])
             ELSE reports
    /\ "execution.report" \notin risk_subscribed_topics
    /\ UNCHANGED <<orders_filled, position_updates_due, riskVars>>
    /\ UNCHANGED notReserve

\* The exchange fills order i: _update_position opens the position, stores
\* its row and publishes position.update.
ExchangeFills(i) ==
    /\ i \in Undecided
    /\ orders_filled' = orders_filled \cup {i}
    /\ position_updates_due' = position_updates_due + 1
    /\ UNCHANGED <<orders_rejected, reports, riskVars>>
    /\ UNCHANGED notReserve

\* _handle_position_update on a delivered position.update:
\* _load_portfolio_state reads the OPEN rows and recomputes the risk.
PositionUpdateDelivered ==
    /\ "position.update" \in risk_subscribed_topics
    /\ position_updates_due > 0
    /\ position_updates_due' = position_updates_due - 1
    /\ active_positions' = reserve_table
    /\ current_portfolio_risk' = load_portfolio_risk(reserve_table)
    /\ UNCHANGED <<db_positions, risk_tasks, orders_out, rejections_out,
                   orders_rejected, orders_filled, reports>>
    /\ UNCHANGED notReserve

ReserveNext ==
    \/ \E i \in DOMAIN TradeIntents : RiskDeliver(i)
    \/ \E t \in 1..MaxIntents : RiskAssess(t)
    \/ \E t \in 1..MaxIntents : RiskFinish(t)
    \/ \E i \in 1..MaxIntents : ExchangeRejects(i)
    \/ \E i \in 1..MaxIntents : ExchangeFills(i)
    \/ PositionUpdateDelivered

SpecReserve == RiskInit /\ [][ReserveNext]_vars

\* Nothing is in flight: every intent is handled, every order decided, every
\* message to the Risk Core delivered.
ReserveQuiescent ==
    /\ RiskInflight = {}
    /\ Undecided = {}
    /\ position_updates_due = 0

\* ------------------------------------------------------------------------
\* C29: when the exchange rejects an approved order, the risk reserved for
\* it at approval is released: with nothing left in flight,
\* current_portfolio_risk is the risk of the open positions and no longer
\* includes the rejected order's.
C29_RejectedRiskReleased ==
    (ReserveQuiescent /\ orders_rejected # {})
        => current_portfolio_risk = load_portfolio_risk(reserve_table)

\* ------------------------------------------------------------------------
\* C38: under any interleaving of trade-intent handling and position.update
\* handling, the total risk of the open positions plus that of the orders
\* approved but not yet reflected in a position never exceeds
\* max_portfolio_risk of the account balance.
RECURSIVE reserved_risk(_)
reserved_risk(orders) ==
    IF orders = {} THEN Whole(0)
    ELSE LET i == CHOOSE j \in orders : TRUE
         IN  RatAdd(orders_out[i].risk_amount, reserved_risk(orders \ {i}))

committed_risk == RatAdd(total_risk(reserve_table), reserved_risk(Undecided))

C38_CommittedRiskWithinCap ==
    RatLeq(committed_risk,
           RatMul(Bps(max_portfolio_risk), Whole(account_balance)))

\* ------------------------------------------------------------------------
\* C30: correlation_id threads every intent -> order -> execution chain:
\* an Order carries the correlation_id of the Trade Intent it was derived
\* from, an Execution Report that of its Order, and two distinct intents
\* never share a correlation_id.
IntentOf(t) == TradeIntents[risk_tasks[t].intent]

C30_CorrelationThreadsChain ==
    /\ \A i \in DOMAIN orders_out :
          orders_out[i].correlation_id = IntentOf(orders_out[i].task).correlation_id
    /\ \A r \in DOMAIN reports :
          reports[r].correlation_id = orders_out[reports[r].handler].correlation_id
    /\ \A t1, t2 \in DOMAIN risk_tasks :
          risk_tasks[t1].intent # risk_tasks[t2].intent
              => IntentOf(t1).correlation_id # IntentOf(t2).correlation_id

\* ========================================================================
\* KellyCriterion.calculate called directly (position_sizing.py 47-85, as
\* src/scripts/test_risk_manager.py calls it)
\* ========================================================================
\* win probabilities, in hundredths, and reward/risk ratios, in tenths
KellyProbabilities == {-10, 0, 10, 30, 40, 45, 49, 50, 51, 55, 60, 65, 70, 90, 100, 120}
KellyRatios == {-10, 0, 1, 5, 10, 15, 20, 30, 100}

KellyInit ==
    /\ LedgerIdle
    /\ ExtIdle
    /\ ExecIdle
    /\ RiskIdle
    /\ StrategyIdle
    /\ LifecycleIdle
    /\ SizingIdle
    /\ FusionIdle
    /\ kelly_pc = "input"
    /\ \E p \in KellyProbabilities, b \in KellyRatios :
          kelly_in = [win_probability |-> Rat(p, 100), reward_risk_ratio |-> Rat(b, 10)]
    /\ kelly_out = <<0, 1>>

KellyCalculate ==
    /\ kelly_pc = "input"
    /\ kelly_out' = KellyCriterion_calculate(kelly_in.win_probability,
                                             kelly_in.reward_risk_ratio)
    /\ kelly_pc' = "returned"
    /\ UNCHANGED <<kelly_in, sizing_pc, sizing_in, position_size_out, proposal,
                   assessment_out, fusion_in, fusion_clock, fusion_log>>
    /\ UNCHANGED notCalc

KellyNext == KellyCalculate

SpecKelly == KellyInit /\ [][KellyNext]_vars

\* win_probability inside (0, 1) and below confidence_threshold: the clamped
\* fraction is halved.
KellyHalved ==
    /\ kelly_in.win_probability[1] > 0
    /\ RatLess(kelly_in.win_probability, confidence_threshold)
    /\ kelly_in.reward_risk_ratio[1] > 0

KellyNamedClamps ==
    /\ (kelly_in = [win_probability |-> <<51, 100>>, reward_risk_ratio |-> <<1, 10>>])
          => kelly_out = min_kelly_fraction
    /\ (kelly_in = [win_probability |-> <<7, 10>>, reward_risk_ratio |-> <<3, 1>>])
          => kelly_out = max_kelly_fraction

\* ------------------------------------------------------------------------
\* C15 as stated: KellyCriterion.calculate returns a fraction within
\* [0.01, 0.25] for every win_probability and reward_risk_ratio, 0.51 with
\* b = 0.1 giving 0.01 and 0.70 with b = 3.0 giving 0.25.
C15_KellyWithinClamps ==
    kelly_pc = "returned" =>
        /\ RatLeq(min_kelly_fraction, kelly_out)
        /\ RatLeq(kelly_out, max_kelly_fraction)
        /\ KellyNamedClamps

\* C15 as the function behaves: the fraction is within [0.005, 0.25] for
\* every input; it is within [0.01, 0.25] unless 0 < win_probability < 0.5
\* with a positive ratio, where the clamped value is halved and so lies
\* within [0.005, 0.125]; the two named inputs give 0.01 and 0.25.
C15_KellyWithinHalvedClamps ==
    kelly_pc = "returned" =>
        /\ RatLeq(RatMul(min_kelly_fraction, <<1, 2>>), kelly_out)
        /\ RatLeq(kelly_out, max_kelly_fraction)
        /\ ~KellyHalved => RatLeq(min_kelly_fraction, kelly_out)
        /\ KellyHalved => RatLeq(kelly_out, RatMul(max_kelly_fraction, <<1, 2>>))
        /\ KellyNamedClamps

\* A call with win_probability 0.4 and b = 1 returned 0.005.
C15_Witness ==
    /\ kelly_pc = "returned"
    /\ kelly_in = [win_probability |-> <<2, 5>>, reward_risk_ratio |-> <<1, 1>>]
    /\ kelly_out = <<1, 200>>

\* ========================================================================
\* The sizing pipeline of _handle_trade_intent on its own (agent.py 223-256):
\* calculate_stops, calculate_position_size, validate_trade; and
\* validate_trade called directly (src/scripts/test_risk_manager.py 257-313)
\* ========================================================================
\* Account balances main() may construct the agent with.
SizingBalances == {Whole(10000), Rat(58202, 100), Rat(5207, 100)}
\* Values _load_portfolio_state may leave in current_portfolio_risk: 11/60 is
\* one open row of size_usd 5500 entered at 3 with its stop at 2.
SizingRisks == {<<0, 1>>, <<149, 1000>>, <<9, 50>>, <<11, 60>>, <<1, 5>>, <<1, 4>>}
\* <<custom_stop, custom_tp>> of a trade at price 100 (0: none)
SizingStops == {<<0, 0>>, <<50, 200>>, <<60, 200>>, <<90, 130>>, <<110, 95>>, <<100, 120>>}
SizingMethods == {"kelly", "fixed", "volatility", "hybrid", "martingale"}
SizingConfidences == {Bps(8000), Bps(5000)}

\* An open position worth 40% of a 10000 account in the traded asset.
heavy_row == [symbol |-> "BTC/USDT", size_usd |-> Whole(4000), entry_price |-> 100,
              stop_loss |-> 0]

SizingInputs ==
    {[balance |-> b, current_risk |-> r, symbol |-> "BTC/USDT", side |-> "BUY",
      current_price |-> 100, confidence |-> c, custom_stop |-> st[1],
      custom_tp |-> st[2], atr |-> a, method |-> m, existing_positions |-> e] :
        b \in SizingBalances, r \in SizingRisks, c \in SizingConfidences,
        st \in SizingStops, a \in AtrValues, m \in SizingMethods,
        e \in {<<>>, <<heavy_row>>}}

\* Arguments of a direct call of validate_trade.
DirectProposals ==
    {[symbol |-> "BTC/USDT", confidence |-> c, position_size |-> Whole(1000),
      risk_amount |-> Whole(ra), reward_risk_ratio |-> Whole(rr),
      current_risk |-> r, balance |-> Whole(account_balance),
      existing_positions |-> e] :
        c \in SizingConfidences, ra \in {50, 600, 2500}, rr \in {1, 2},
        r \in {<<0, 1>>, <<9, 50>>}, e \in {<<>>, <<heavy_row>>}}

SizingInit ==
    /\ LedgerIdle
    /\ ExtIdle
    /\ ExecIdle
    /\ RiskIdle
    /\ StrategyIdle
    /\ LifecycleIdle
    /\ KellyIdle
    /\ FusionIdle
    /\ position_size_out = NoPositionSize
    /\ assessment_out = NoAssessment
    /\ \/ /\ sizing_pc = "input"
          /\ sizing_in \in SizingInputs
          /\ proposal = NoProposal
       \/ /\ sizing_pc = "proposed"
          /\ sizing_in = NoSizingIn
          /\ proposal \in DirectProposals

\* calculate_stops and calculate_position_size, up to the call of
\* validate_trade.  A ZeroDivisionError ends the handler.
SizePosition ==
    /\ sizing_pc = "input"
    /\ \E ties \in Ties :
       LET stop_levels == calculate_stops(sizing_in.current_price, sizing_in.side,
                              stop_loss_method, sizing_in.atr,
                              sizing_in.custom_stop, sizing_in.custom_tp)
           position_size == calculate_position_size(
                              sizing_in.balance, max_position_pct(sizing_in.balance),
                              Bps(max_portfolio_risk), sizing_in.current_price,
                              sizing_in.confidence,
                              stop_levels.stop_loss, stop_levels.take_profit,
                              sizing_in.atr, sizing_in.method, sizing_in.current_risk,
                              ties)
       IN IF position_size.raised
          THEN /\ sizing_pc' = "raised"
               /\ UNCHANGED <<position_size_out, proposal>>
          ELSE /\ sizing_pc' = "proposed"
               /\ position_size_out' = position_size
               /\ proposal' = [symbol |-> sizing_in.symbol,
                               confidence |-> sizing_in.confidence,
                               position_size |-> position_size.size_usd,
                               risk_amount |-> position_size.risk_amount,
                               reward_risk_ratio |-> stop_levels.reward_risk_ratio,
                               current_risk |-> sizing_in.current_risk,
                               balance |-> sizing_in.balance,
                               existing_positions |-> sizing_in.existing_positions]
    /\ UNCHANGED <<kelly_pc, kelly_in, kelly_out, sizing_in, assessment_out,
                   fusion_in, fusion_clock, fusion_log>>
    /\ UNCHANGED notCalc

ValidateTrade ==
    /\ sizing_pc = "proposed"
    /\ assessment_out' = validate_trade(proposal.symbol, proposal.confidence,
                             proposal.position_size, proposal.risk_amount,
                             proposal.reward_risk_ratio, proposal.current_risk,
                             proposal.balance, proposal.existing_positions)
    /\ sizing_pc' = "validated"
    /\ UNCHANGED <<kelly_pc, kelly_in, kelly_out, sizing_in, position_size_out, proposal,
                   fusion_in, fusion_clock, fusion_log>>
    /\ UNCHANGED notCalc

SizingNext ==
    \/ SizePosition
    \/ ValidateTrade

SpecSizing == SizingInit /\ [][SizingNext]_vars

\* ------------------------------------------------------------------------
\* C16: validate_trade approves a trade if and only if none of the five
\* checks (confidence below 0.6, reward/risk below 1.5, single-trade risk
\* above 5%, portfolio risk after above 20%, same-asset exposure above 30%)
\* is violated, and risk_score is the sum of the deltas (0.3, 0.2, 0.3, 0.4,
\* 0.2) of the violated checks, capped at 1.0.
C16_Deltas ==
    <<(IF RatLess(proposal.confidence, <<3, 5>>) THEN 3000 ELSE 0),
      (IF RatLess(proposal.reward_risk_ratio, <<3, 2>>) THEN 2000 ELSE 0),
      (IF RatLess(<<1, 20>>, RatDiv(proposal.risk_amount, proposal.balance))
       THEN 3000 ELSE 0),
      (IF RatLess(<<1, 5>>, RatAdd(proposal.current_risk,
                                   RatDiv(proposal.risk_amount, proposal.balance)))
       THEN 4000 ELSE 0),
      (IF RatLess(<<3, 10>>,
                  RatDiv(same_class_exposure(proposal.existing_positions,
                                             proposal.symbol), proposal.balance))
       THEN 2000 ELSE 0)>>

C16_DeltaSum == C16_Deltas[1] + C16_Deltas[2] + C16_Deltas[3] + C16_Deltas[4] + C16_Deltas[5]

C16_ApprovedIffNoViolation ==
    sizing_pc = "validated" =>
        /\ assessment_out.approved <=> C16_DeltaSum = 0
        /\ assessment_out.risk_score = Min2(10000, C16_DeltaSum)

\* A trade violating all five checks was rejected with the capped score 1.0.
C16_Witness ==
    /\ sizing_pc = "validated"
    /\ \A k \in 1..5 : C16_Deltas[k] > 0
    /\ ~assessment_out.approved
    /\ assessment_out.risk_score = 10000

\* ------------------------------------------------------------------------
\* C17 as stated: for every sizing method and every input, the size in
\* quote currency calculate_position_size returns never exceeds
\* account_balance x max_position_pct.
SizedByPipeline == sizing_pc \in {"proposed", "validated"} /\ sizing_in # NoSizingIn

MaxPositionSize == RatMul(sizing_in.balance, max_position_pct(sizing_in.balance))

C13_RiskAdjustedFillsHeadroom ==
    (sizing_pc = "validated" /\ position_size_out.risk_adjusted) =>
        /\ position_size_out.method[Len(position_size_out.method)] = "(risk-adjusted)"
        /\ RatDiv(position_size_out.risk_amount, sizing_in.balance)
              = RatSub(Bps(max_portfolio_risk), sizing_in.current_risk)
        /\ assessment_out.portfolio_risk_after = Bps(max_portfolio_risk)
        /\ "Portfolio risk limit" \notin assessment_out.rejection_reason

\* With 10000 in the account and 11/60 of it at risk, a trade at 100 with
\* its stop at 60 was shrunk to 416.67, whose risk 166.67 brings the
\* portfolio risk to 0.20000033: rejected for its portfolio risk.
C13_RejectedAfterShrink ==
    /\ sizing_pc = "validated"
    /\ sizing_in.balance = Whole(10000)
    /\ sizing_in.current_risk = <<11, 60>>
    /\ sizing_in.custom_stop = 60
    /\ position_size_out.risk_adjusted
    /\ position_size_out.size_usd = Rat(41667, 100)
    /\ position_size_out.risk_amount = Rat(16667, 100)
    /\ assessment_out.rejection_reason = {"Portfolio risk limit"}

\* The part of C13 that decides whether the trade is placed: a trade the
\* sizer shrank is not rejected for its portfolio risk.
C13_RiskAdjustedNotRejectedForPortfolioRisk ==
    (sizing_pc = "validated" /\ position_size_out.risk_adjusted) =>
        "Portfolio risk limit" \notin assessment_out.rejection_reason

\* ========================================================================
\* Signal Fusion Core: the fusion policies (signal_fusion.py)
\* A signal's confidence is in tenths (0..10).  A fused score is the exact
\* quotient <<numerator, denominator>> with denominator > 0, compared by
\* cross-multiplication, so a score the program forms as a sum of float
\* quotients is the exact sum here.  Time is counted in ticks of TickSeconds.
TickSeconds == 150
min_signals == 2
signal_timeout_seconds == 300
strategy_min_confidence == <<6, 10>>
min_agreement == <<6, 10>>
half_life_minutes == 30

MaxSignals == 4
MaxNow == 3
MaxDelay == 0

FusionStrategies == {"bayesian", "consensus", "time_decay", "hybrid"}
FusionSymbols == {"BTC/USDT"}
protocol_SignalType == {"BUY", "SELL", "HOLD"}

\* The TradingSignal messages that pass deserialize_message (confidence
\* within [0, 1]): both agent classes, every signal type, a strong (0.8)
\* and a weak (0.5) confidence.
TradingSignals ==
    {[symbol |-> sym, agent_type |-> k[1], signal |-> k[2], confidence |-> k[3]] :
        sym \in FusionSymbols,
        k \in {<<"technical", "BUY", 8>>, <<"technical", "SELL", 8>>,
               <<"sentiment", "BUY", 5>>, <<"sentiment", "HOLD", 8>>}}

RatioAdd(a, b) == <<a[1] * b[2] + b[1] * a[2], a[2] * b[2]>>
RatioMax(a, b) == IF RatioLess(a, b) THEN b ELSE a
RatioMin(a, b) == IF RatioLess(b, a) THEN b ELSE a

RECURSIVE SumOver(_, _)
SumOver(f, S) ==
    IF S = {} THEN 0
    ELSE LET x == CHOOSE y \in S : TRUE
         IN  f[x] + SumOver(f, S \ {x})

\* get_agent_weight: agent_performance holds no history (nothing in the
\* program calls update_agent_performance), so the weight is base_confidence
\* = 0.5, in tenths.
get_agent_weight(agent_type) == 5

\* The vote both weighted policies end with.
final_vote(buy_score, sell_score) ==
    IF RatioLess(sell_score, buy_score) /\ RatioLess(<<3, 10>>, buy_score)
    THEN [signal |-> "BUY", confidence |-> buy_score]
    ELSE IF RatioLess(buy_score, sell_score) /\ RatioLess(<<3, 10>>, sell_score)
    THEN [signal |-> "SELL", confidence |-> sell_score]
    ELSE [signal |-> "HOLD", confidence |-> RatioMax(buy_score, sell_score)]

\* BayesianFusion.fuse_signals up to the vote: buy_score and sell_score.
\* agent_weights is keyed by agent_type, so the last signal of an agent type
\* sets that type's weight, and the vote adds the type's normalized weight
\* once per signal.
bayesian_scores(signals) ==
    LET types == {signals[i].agent_type : i \in DOMAIN signals}
        last(a) == CHOOSE i \in DOMAIN signals :
                      /\ signals[i].agent_type = a
                      /\ \A j \in DOMAIN signals :
                            signals[j].agent_type = a => j <= i
        agent_weights == [a \in types |->
                            get_agent_weight(a) * signals[last(a)].confidence]
        total_weight == SumOver(agent_weights, types)
        den == IF total_weight > 0 THEN total_weight ELSE 100
        score(side) ==
            SumOver([i \in DOMAIN signals |->
                        IF signals[i].signal = side
                        THEN agent_weights[signals[i].agent_type] ELSE 0],
                    DOMAIN signals)
    IN  [buy_score |-> <<score("BUY"), den>>, sell_score |-> <<score("SELL"), den>>]

\* BayesianFusion.fuse_signals.
BayesianFusion_fuse_signals(signals) ==
    IF signals = <<>> THEN [signal |-> "HOLD", confidence |-> <<0, 1>>]
    ELSE LET s == bayesian_scores(signals)
         IN  final_vote(s.buy_score, s.sell_score)

\* ConsensusStrategy.fuse_signals.
ConsensusStrategy_fuse_signals(signals) ==
    LET strong == {i \in DOMAIN signals :
                      ~RatioLess(<<signals[i].confidence, 10>>,
                                 strategy_min_confidence)}
        of(side) == {i \in strong : signals[i].signal = side}
        total == Cardinality(strong)
        agrees(side) ==
            ~RatioLess(<<Cardinality(of(side)), total>>, min_agreement)
        mean(side) ==
            <<SumOver([i \in of(side) |-> signals[i].confidence], of(side)),
              10 * Cardinality(of(side))>>
    IN  IF signals = <<>> \/ strong = {}
        THEN [signal |-> "HOLD", confidence |-> <<0, 1>>]
        ELSE IF agrees("BUY") THEN [signal |-> "BUY", confidence |-> mean("BUY")]
        ELSE IF agrees("SELL") THEN [signal |-> "SELL", confidence |-> mean("SELL")]
        ELSE [signal |-> "HOLD", confidence |-> <<0, 1>>]

\* Ticks in one half-life, and 800 * 0.5 ** (k / 12) for k = 0..11, rounded.
HalfLifeTicks == (half_life_minutes * 60) \div TickSeconds
decay_table == <<800, 755, 713, 673, 635, 599, 566, 534, 504, 476, 449, 424>>

RECURSIVE Pow2(_)
Pow2(n) == IF n <= 0 THEN 1 ELSE 2 * Pow2(n - 1)

\* TimeDecayFusion.calculate_time_weight: 0.5 ** (age_minutes / 30), in
\* 1/800: exact at every whole number of half-lives up to three (800, 400,
\* 200, 100), rounded in between (0.94 at 150 s, 0.89 at 300 s).
calculate_time_weight(age) ==
    IF age <= 0 THEN 800
    ELSE decay_table[(age % HalfLifeTicks) + 1] \div Pow2(age \div HalfLifeTicks)

\* TimeDecayFusion.fuse_signals up to the vote: the normalized buy_score
\* and sell_score.  reads[i] is what datetime.utcnow() returns when
\* calculate_time_weight is called for the i-th signal.
time_decay_scores(signals, reads) ==
    LET signal_weight == [i \in DOMAIN signals |->
            calculate_time_weight(reads[i] - signals[i].timestamp)
            * signals[i].confidence]
        total_weight == SumOver(signal_weight, DOMAIN signals)
        den == IF total_weight > 0 THEN total_weight ELSE 1000
        score(side) ==
            SumOver([i \in DOMAIN signals |->
                        IF signals[i].signal = side THEN signal_weight[i] ELSE 0],
                    DOMAIN signals)
    IN  [buy_score |-> Rat(score("BUY"), den), sell_score |-> Rat(score("SELL"), den)]

\* TimeDecayFusion.fuse_signals.
TimeDecayFusion_fuse_signals(signals, reads) ==
    IF signals = <<>> THEN [signal |-> "HOLD", confidence |-> <<0, 1>>]
    ELSE LET s == time_decay_scores(signals, reads)
         IN  final_vote(s.buy_score, s.sell_score)

\* HybridFusion.fuse_signals, from the three policies' results on: each
\* policy votes for its signal with its confidence; max() over the dict
\* {BUY, SELL, HOLD} returns the first key with the highest score; the
\* confidence is that score / 3.
vote_for(v, side) == IF v.signal = side THEN v.confidence ELSE <<0, 1>>

signal_scores(b, c, d, side) ==
    RatioAdd(RatioAdd(vote_for(b, side), vote_for(c, side)), vote_for(d, side))

hybrid_vote(buy, sell, hold) ==
    IF ~RatioLess(buy, sell) /\ ~RatioLess(buy, hold)
    THEN [signal |-> "BUY", confidence |-> <<buy[1], 3 * buy[2]>>]
    ELSE IF ~RatioLess(sell, hold)
    THEN [signal |-> "SELL", confidence |-> <<sell[1], 3 * sell[2]>>]
    ELSE [signal |-> "HOLD", confidence |-> <<hold[1], 3 * hold[2]>>]

hybrid_combine(b, c, d) ==
    hybrid_vote(signal_scores(b, c, d, "BUY"), signal_scores(b, c, d, "SELL"),
                signal_scores(b, c, d, "HOLD"))

HybridFusion_fuse_signals(signals, reads) ==
    IF signals = <<>> THEN [signal |-> "HOLD", confidence |-> <<0, 1>>]
    ELSE hybrid_combine(BayesianFusion_fuse_signals(signals),
                        ConsensusStrategy_fuse_signals(signals),
                        TimeDecayFusion_fuse_signals(signals, reads))

\* The policy's fuse_signals, given what the clock returns at each read.
fuse_signals(strategy, signals, reads) ==
    CASE strategy = "bayesian" -> BayesianFusion_fuse_signals(signals)
      [] strategy = "consensus" -> ConsensusStrategy_fuse_signals(signals)
      [] strategy = "time_decay" -> TimeDecayFusion_fuse_signals(signals, reads)
      [] strategy = "hybrid" -> HybridFusion_fuse_signals(signals, reads)

\* StrategyAgent._apply_fusion_strategy within one tick of the clock: every
\* read of the clock returns t.
apply_fusion_strategy(strategy, signals, t) ==
    fuse_signals(strategy, signals, [i \in DOMAIN signals |-> t])

\* ========================================================================
\* Signal Fusion Core: the worker (strategy/agent.py)
\* The filter both _make_decision and _cleanup_old_signals apply:
\* now - s.timestamp < self.signal_timeout.
is_recent(s, t) == (t - s.timestamp) * TickSeconds < signal_timeout_seconds
recent_signals(signals, t) == SelectSeq(signals, LAMBDA s : is_recent(s, t))

\* TradeIntent(...): pydantic accepts side in OrderSide and
\* 0 <= confidence <= 1.
TradeIntent_validates(side, confidence) ==
    /\ side \in protocol_OrderSide
    /\ confidence[1] >= 0
    /\ ~RatioLess(<<1, 1>>, confidence)

\* _generate_trade_intent: normalized_confidence = min(confidence, 1.0).
\* raw_confidence is the metadata entry of that name.
generate_trade_intent(symbol, signals, fusion_result, strategy) ==
    [symbol |-> symbol,
     side |-> fusion_result.signal,
     confidence |-> RatioMin(fusion_result.confidence, <<1, 1>>),
     strategy_name |-> strategy,
     num_signals |-> Len(signals),
     raw_confidence |-> fusion_result.confidence,
     correlation_id |-> 0]

NoFusion == [signal |-> "none", confidence |-> <<0, 1>>]

\* _make_decision from the fusion result on, up to its publish_message
\* call: what the decision comes to ("low_confidence", "hold", "error": an
\* exception left the method, "publish": the intent is handed to the bus).
Decision(outcome, fusion_result, intent) ==
    [outcome |-> outcome, fusion |-> fusion_result, intent |-> intent]

publish_unless_invalid(fusion_result, trade_intent) ==
    IF TradeIntent_validates(trade_intent.side, trade_intent.confidence)
    THEN Decision("publish", fusion_result, trade_intent)
    ELSE Decision("error", fusion_result, <<>>)

decide_Ungated(symbol, recent, fusion_result, strategy) ==
    IF RatioLess(fusion_result.confidence, strategy_min_confidence)
    THEN Decision("low_confidence", fusion_result, <<>>)
    ELSE Decision("publish", fusion_result,
                  [generate_trade_intent(symbol, recent, fusion_result, strategy)
                      EXCEPT !.confidence = fusion_result.confidence])

decide(symbol, recent, fusion_result, strategy) ==
    IF RatioLess(fusion_result.confidence, strategy_min_confidence)
    THEN Decision("low_confidence", fusion_result, <<>>)
    ELSE IF fusion_result.signal = "HOLD"
    THEN Decision("hold", fusion_result, <<>>)
    ELSE publish_unless_invalid(
             fusion_result,
             generate_trade_intent(symbol, recent, fusion_result, strategy))

\* _make_decision without its count of the recent signals.
decide_recent_NoMinimum(symbol, recent, strategy, t) ==
    IF recent = <<>>
    THEN Decision("insufficient", NoFusion, <<>>)
    ELSE decide(symbol, recent, apply_fusion_strategy(strategy, recent, t),
                strategy)

\* _make_decision on the recent signals: too few of them end it
\* ("insufficient"), otherwise the fusion result is decided on.
decide_recent(symbol, recent, strategy, t) ==
    IF Len(recent) < min_signals
    THEN Decision("insufficient", NoFusion, <<>>)
    ELSE decide(symbol, recent, apply_fusion_strategy(strategy, recent, t),
                strategy)

make_decision(symbol, signals, strategy, t) ==
    decide_recent(symbol, recent_signals(signals, t), strategy, t)

\* self.signal_buffers is a dict in insertion order: a sequence of buffers,
\* one per symbol.
SignalBuffer(symbol) ==
    [symbol |-> symbol, signals |-> <<>>, last_decision |-> 0,
     pending_count |-> 0]
has_buffer(bufs, symbol) == \E i \in DOMAIN bufs : bufs[i].symbol = symbol
buffer_index(bufs, symbol) == CHOOSE i \in DOMAIN bufs : bufs[i].symbol = symbol
buffer_symbols(bufs) == [i \in DOMAIN bufs |-> bufs[i].symbol]

\* _cleanup_old_signals without its filter: only empty buffers are evicted.
cleanup_old_signals_KeepAll(bufs, t) ==
    SelectSeq(bufs, LAMBDA b : ~(b.signals = <<>> /\ b.pending_count = 0))

\* _cleanup_old_signals.
cleanup_old_signals(bufs, t) ==
    LET filtered == [i \in DOMAIN bufs |->
                        [bufs[i] EXCEPT !.signals = recent_signals(@, t)]]
    IN  SelectSeq(filtered,
                  LAMBDA b : ~(b.signals = <<>> /\ b.pending_count = 0))

\* One pass of _decision_loop from the symbol at the head of todo up to the
\* next await that suspends: the publish_message call of a decision, or the
\* sleep that follows _cleanup_old_signals.  An exception leaves the pass at
\* once: the except clause logs it and the loop sleeps again.
Pass(bufs, todo, pc, intent, last) ==
    [bufs |-> bufs, todo |-> todo, pc |-> pc, intent |-> intent, last |-> last,
     janitor |-> FALSE]

LogEntry(symbol, d) ==
    [symbol |-> symbol, outcome |-> d.outcome, fusion |-> d.fusion]

RECURSIVE run_decisions(_, _, _, _, _)
after_decision(bufs, todo, strategy, t, i, d) ==
    CASE d.outcome = "publish" ->
            Pass(bufs, todo, "publishing", [intent |-> d.intent, now |-> t],
                 LogEntry(bufs[i].symbol, d))
      [] d.outcome = "error" ->
            Pass(bufs, <<>>, "sleeping", <<>>, LogEntry(bufs[i].symbol, d))
      [] OTHER ->
            run_decisions([bufs EXCEPT ![i].pending_count = 0], Tail(todo),
                          strategy, t, LogEntry(bufs[i].symbol, d))

visit_buffer(bufs, todo, strategy, t, last, i) ==
    IF bufs[i].pending_count < min_signals
    THEN Pass(bufs, Tail(todo), "deciding", <<>>, last)
    ELSE after_decision(bufs, todo, strategy, t, i,
                        make_decision(bufs[i].symbol, bufs[i].signals,
                                      strategy, t))

continue_pass(r, strategy, t) ==
    IF r.pc = "deciding"
    THEN run_decisions(r.bufs, r.todo, strategy, t, r.last)
    ELSE r

run_decisions(bufs, todo, strategy, t, last) ==
    IF todo = <<>>
    THEN [Pass(cleanup_old_signals(bufs, t), <<>>, "sleeping", <<>>, last)
             EXCEPT !.janitor = TRUE]
    ELSE continue_pass(visit_buffer(bufs, todo, strategy, t, last,
                                    buffer_index(bufs, Head(todo))),
                       strategy, t)

SetDecision(r) ==
    /\ signal_buffers' = r.bufs
    /\ decision_todo' = r.todo
    /\ decision_pc' = r.pc
    /\ decision_intent' = r.intent
    /\ last_fusion' = r.last
    /\ janitor_done' = r.janitor

\* _handle_*_signal -> _add_signal_to_buffer: a signal stamped by its sender
\* delay ticks ago is appended to its symbol's buffer.
AddSignal(sig, delay) ==
    /\ signals_admitted < MaxSignals
    /\ delay <= utcnow
    /\ signals_admitted' = signals_admitted + 1
    /\ LET s == [agent_type |-> sig.agent_type, symbol |-> sig.symbol,
                 signal |-> sig.signal, confidence |-> sig.confidence,
                 timestamp |-> utcnow - delay]
           bufs == IF has_buffer(signal_buffers, sig.symbol)
                   THEN signal_buffers
                   ELSE Append(signal_buffers, SignalBuffer(sig.symbol))
           i == buffer_index(bufs, sig.symbol)
       IN  signal_buffers' =
               [bufs EXCEPT ![i].signals = Append(@, s),
                            ![i].pending_count = @ + 1]
    /\ janitor_done' = FALSE
    /\ UNCHANGED <<fusion_strategy, utcnow, decision_pc, decision_todo,
                   decision_intent, intents_out, last_fusion>>
    /\ UNCHANGED notStrategy

\* The wall clock advances.
StrategyTick ==
    /\ utcnow < MaxNow
    /\ utcnow' = utcnow + 1
    /\ janitor_done' = FALSE
    /\ UNCHANGED <<fusion_strategy, signal_buffers, signals_admitted,
                   decision_pc, decision_todo, decision_intent, intents_out,
                   last_fusion>>
    /\ UNCHANGED notStrategy

\* _decision_loop: asyncio.sleep(decision_interval) returns and the pass
\* over list(self.signal_buffers.items()) starts.
DecisionWake ==
    /\ decision_pc = "sleeping"
    /\ SetDecision(run_decisions(signal_buffers,
                                 buffer_symbols(signal_buffers),
                                 fusion_strategy, utcnow, last_fusion))
    /\ UNCHANGED <<fusion_strategy, utcnow, signals_admitted, intents_out>>
    /\ UNCHANGED notStrategy

\* publish_message and _store_decision return: the intent is on
\* trade.intent, _make_decision sets buffer.last_decision, the loop resets
\* pending_count and goes on with the next symbol.
PublishIntent ==
    /\ decision_pc = "publishing"
    /\ intents_out' = Append(intents_out, decision_intent.intent)
    /\ LET i == buffer_index(signal_buffers, Head(decision_todo))
           bufs == [signal_buffers EXCEPT
                       ![i].last_decision = decision_intent.now,
                       ![i].pending_count = 0]
       IN  SetDecision(run_decisions(bufs, Tail(decision_todo),
                                     fusion_strategy, utcnow, last_fusion))
    /\ UNCHANGED <<fusion_strategy, utcnow, signals_admitted>>
    /\ UNCHANGED notStrategy

\* publish_message raises (the broker is gone): the except clause of
\* _decision_loop logs decision_loop_error and the loop sleeps again.
PublishFails ==
    /\ decision_pc = "publishing"
    /\ decision_pc' = "sleeping"
    /\ decision_todo' = <<>>
    /\ decision_intent' = <<>>
    /\ last_fusion' = [last_fusion EXCEPT !.outcome = "error"]
    /\ janitor_done' = FALSE
    /\ UNCHANGED <<fusion_strategy, signal_buffers, utcnow, signals_admitted,
                   intents_out>>
    /\ UNCHANGED notStrategy

\* After the constructor and initialize(): any of the four policies.
StrategyInit ==
    /\ LedgerIdle
    /\ ExtIdle
    /\ ExecIdle
    /\ RiskIdle
    /\ LifecycleIdle
    /\ CalcIdle
    /\ fusion_strategy \in FusionStrategies
    /\ signal_buffers = <<>>
    /\ utcnow = 0
    /\ signals_admitted = 0
    /\ decision_pc = "sleeping"
    /\ decision_todo = <<>>
    /\ decision_intent = <<>>
    /\ intents_out = <<>>
    /\ last_fusion = NoDecision
    /\ janitor_done = FALSE

StrategyNext ==
    \/ \E sig \in TradingSignals, delay \in 0..MaxDelay : AddSignal(sig, delay)
    \/ StrategyTick
    \/ DecisionWake
    \/ PublishIntent
    \/ PublishFails

SpecStrategy == StrategyInit /\ [][StrategyNext]_vars

\* ------------------------------------------------------------------------
\* C4: every Trade Intent handed to trade.intent has 0 <= confidence <= 1
\* and side BUY or SELL, and a decision whose fused signal is HOLD is never
\* handed to the bus, whatever the fusion policy and the buffered signals.
IntentValid(m) ==
    /\ m.side \in {"BUY", "SELL"}
    /\ m.confidence[1] >= 0
    /\ m.confidence[1] <= m.confidence[2]

C4_PublishedIntentsValid ==
    /\ \A i \in DOMAIN intents_out : IntentValid(intents_out[i])
    /\ decision_pc = "publishing" =>
          /\ last_fusion.fusion.signal # "HOLD"
          /\ IntentValid(decision_intent.intent)

\* Reached: an intent whose fused confidence was above 1 is on the bus with
\* confidence 1, and the latest decision fused HOLD with a confidence that
\* passes the threshold and published nothing.
C4_Witness ==
    /\ \E i \in DOMAIN intents_out :
          /\ RatioLess(<<1, 1>>, intents_out[i].raw_confidence)
          /\ intents_out[i].confidence = <<1, 1>>
    /\ last_fusion.outcome = "hold"
    /\ ~RatioLess(last_fusion.fusion.confidence, strategy_min_confidence)

\* ------------------------------------------------------------------------
\* C11: right after a janitor pass (_cleanup_old_signals ran to its end),
\* every signal still held in any symbol buffer has an age of at most
\* signal_timeout: now - signal.timestamp <= signal_timeout.
SignalsHeld ==
    SumOver([i \in DOMAIN signal_buffers |-> Len(signal_buffers[i].signals)],
            DOMAIN signal_buffers)

C11_JanitorRetainsOnlyFresh ==
    janitor_done =>
        \A i \in DOMAIN signal_buffers :
            \A k \in DOMAIN signal_buffers[i].signals :
                (utcnow - signal_buffers[i].signals[k].timestamp) * TickSeconds
                    <= signal_timeout_seconds

\* Reached: a janitor pass has just ended that dropped a signal (fewer are
\* held than were admitted) and kept one that is older than its own tick.
C11_Witness ==
    /\ janitor_done
    /\ SignalsHeld < signals_admitted
    /\ \E i \in DOMAIN signal_buffers :
          \E k \in DOMAIN signal_buffers[i].signals :
              signal_buffers[i].signals[k].timestamp < utcnow

\* ------------------------------------------------------------------------
\* C12: a decision hands a Trade Intent to trade.intent only when the
\* symbol's buffer holds at least min_signals signals younger than
\* signal_timeout at that tick, whatever pending_count says; with
\* min_signals - 1 such signals no intent is made.
RecentHeld(symbol) ==
    IF has_buffer(signal_buffers, symbol)
    THEN Len(recent_signals(
             signal_buffers[buffer_index(signal_buffers, symbol)].signals,
             utcnow))
    ELSE 0

C12_DecisionStep ==
    (decision_pc' = "publishing"
        /\ <<decision_pc, decision_todo, decision_intent>>
              # <<decision_pc', decision_todo', decision_intent'>>)
    => RecentHeld(decision_intent'.intent.symbol) >= min_signals

C12_IntentNeedsMinSignals ==
    /\ [][C12_DecisionStep]_vars
    /\ [](\A i \in DOMAIN intents_out : intents_out[i].num_signals >= min_signals)

\* Reached: a decision was entered on a pending_count that passed the gate
\* while only min_signals - 1 signals were recent; it ended as insufficient,
\* the janitor kept that one signal, and nothing was published.
C12_Witness ==
    /\ last_fusion.outcome = "insufficient"
    /\ janitor_done
    /\ \E i \in DOMAIN signal_buffers :
          Len(signal_buffers[i].signals) = min_signals - 1
    /\ SignalsHeld < signals_admitted
    /\ intents_out = <<>>

\* ------------------------------------------------------------------------
\* C33: the janitor evicts empty buffers: right after every janitor pass no
\* symbol buffer holding zero signals remains in the buffer map, whatever
\* its pending_count.
C33_JanitorEvictsEmptyBuffers ==
    janitor_done =>
        \A i \in DOMAIN signal_buffers : signal_buffers[i].signals # <<>>

\* What does hold: a buffer left empty by a pass has a pending_count above 0.
C33_EmptyKeptOnlyWhilePending ==
    janitor_done =>
        \A i \in DOMAIN signal_buffers :
            signal_buffers[i].signals = <<>> => signal_buffers[i].pending_count > 0

\* ------------------------------------------------------------------------
\* C23: buffer mutation and decision evaluation of a symbol do not
\* interleave: from the start of a symbol's decision evaluation to the reset
\* of its pending_count no signal is admitted to that symbol's buffer, so no
\* admitted signal's pending count is lost.
C23_DecisionStep ==
    (decision_pc = "publishing" /\ signals_admitted' # signals_admitted)
        => LET i == buffer_index(signal_buffers, Head(decision_todo))
           IN signal_buffers'[i] = signal_buffers[i]

C23_NoAdmissionDuringDecision == [][C23_DecisionStep]_vars

\* ========================================================================
\* fuse_signals called twice on the same signals (signal_fusion.py)
\* Timestamps and clock values are whole numbers of half-lives, where the
\* time weight is exact.
\* ========================================================================
MaxFusions == 2
MaxHalfLives == 3

FusionTimestamps == {0, HalfLifeTicks}
FusionReads == {k * HalfLifeTicks : k \in 1..MaxHalfLives}

\* Two signals of the kinds the bus delivers, each stamped.
FusionInputs ==
    {[strategy |-> st,
      signals |-> <<[symbol |-> a.symbol, agent_type |-> a.agent_type,
                     signal |-> a.signal, confidence |-> a.confidence,
                     timestamp |-> ta],
                    [symbol |-> b.symbol, agent_type |-> b.agent_type,
                     signal |-> b.signal, confidence |-> b.confidence,
                     timestamp |-> tb]>>] :
        st \in FusionStrategies, a \in TradingSignals, b \in TradingSignals,
        ta \in FusionTimestamps, tb \in FusionTimestamps}

FusionInit ==
    /\ LedgerIdle
    /\ ExtIdle
    /\ ExecIdle
    /\ RiskIdle
    /\ StrategyIdle
    /\ LifecycleIdle
    /\ KellyIdle
    /\ SizingIdle
    /\ fusion_in \in FusionInputs
    /\ fusion_clock = HalfLifeTicks
    /\ fusion_log = <<>>

\* One invocation of the policy's fuse_signals on fusion_in.  The clock is
\* read once per signal, in the order of the list, and never goes back.
Fuse ==
    /\ Len(fusion_log) < MaxFusions
    /\ \E reads \in [DOMAIN fusion_in.signals -> FusionReads] :
          /\ reads[1] >= fusion_clock
          /\ \A i \in DOMAIN reads : i > 1 => reads[i] >= reads[i - 1]
          /\ fusion_log' = Append(fusion_log,
                LET r == fuse_signals(fusion_in.strategy, fusion_in.signals, reads)
                IN  [signal |-> r.signal, confidence |-> r.confidence,
                     reads |-> reads])
          /\ fusion_clock' = reads[Len(fusion_in.signals)]
    /\ UNCHANGED <<kelly_pc, kelly_in, kelly_out, sizing_pc, sizing_in,
                   position_size_out, proposal, assessment_out, fusion_in>>
    /\ UNCHANGED notCalc

FusionNext == Fuse

SpecFusion == FusionInit /\ [][FusionNext]_vars

SameFusion(r1, r2) ==
    /\ r1.signal = r2.signal
    /\ Rat(r1.confidence[1], r1.confidence[2]) = Rat(r2.confidence[1], r2.confidence[2])

\* ------------------------------------------------------------------------
\* C18: for the same signals with the same timestamps, the same policy and
\* the same (empty) agent history, every invocation of fuse_signals returns
\* the same direction and the same confidence, whenever it is invoked.
C18_FusionDeterministic ==
    \A i \in DOMAIN fusion_log : \A j \in DOMAIN fusion_log :
        SameFusion(fusion_log[i], fusion_log[j])

\* What does hold: the policies that do not read the clock return the same
\* result on every invocation.
C18_ClocklessPoliciesDeterministic ==
    fusion_in.strategy \in {"bayesian", "consensus"} => C18_FusionDeterministic

\* A BUY and a SELL of confidence 0.8 with one timestamp were fused twice
\* by the time-decay policy: HOLD at one invocation, BUY at the other.
C18_TieBrokenByClock ==
    /\ fusion_in.strategy = "time_decay"
    /\ Len(fusion_log) = 2
    /\ fusion_in.signals[1].signal = "BUY" /\ fusion_in.signals[2].signal = "SELL"
    /\ fusion_in.signals[1].confidence = fusion_in.signals[2].confidence
    /\ fusion_in.signals[1].timestamp = fusion_in.signals[2].timestamp
    /\ fusion_log[1].signal = "HOLD"
    /\ fusion_log[2].signal = "BUY"

\* ------------------------------------------------------------------------
\* C31: in every fusion policy ties break toward HOLD: whenever the BUY and
\* SELL scores are equal (weighted-posterior, time-decay) or the top
\* direction scores are equal (hybrid, the case where all three direction
\* scores are 0 included), the fused direction is HOLD.
RatioEq(a, b) == ~RatioLess(a, b) /\ ~RatioLess(b, a)

\* The three direction scores of the hybrid policy on signals.
hybrid_scores(signals, reads) ==
    [side \in protocol_SignalType |->
        signal_scores(BayesianFusion_fuse_signals(signals),
                      ConsensusStrategy_fuse_signals(signals),
                      TimeDecayFusion_fuse_signals(signals, reads), side)]

\* The highest score is held by more than one direction.
TopTied(scores) ==
    \E a \in DOMAIN scores : \E b \in DOMAIN scores \ {a} :
        /\ RatioEq(scores[a], scores[b])
        /\ \A c \in DOMAIN scores : ~RatioLess(scores[a], scores[c])

Tied(strategy, signals, reads) ==
    CASE strategy = "bayesian" ->
            LET s == bayesian_scores(signals)
            IN  RatioEq(s.buy_score, s.sell_score)
      [] strategy = "time_decay" ->
            LET s == time_decay_scores(signals, reads)
            IN  RatioEq(s.buy_score, s.sell_score)
      [] strategy = "hybrid" -> TopTied(hybrid_scores(signals, reads))
      [] OTHER -> FALSE

C31_TiesBreakTowardHold ==
    \A i \in DOMAIN fusion_log :
        Tied(fusion_in.strategy, fusion_in.signals, fusion_log[i].reads)
            => fusion_log[i].signal = "HOLD"

\* What does hold: the two weighted policies return HOLD on equal scores.
C31_WeightedTiesHold ==
    fusion_in.strategy \in {"bayesian", "time_decay"} => C31_TiesBreakTowardHold

\* ------------------------------------------------------------------------
\* C32: in the weighted-posterior policy the weights are normalized over the
\* contributing signals: for every list of signals, several signals of one
\* agent class included, buy_score + sell_score <= 1 and the returned
\* confidence lies in [0, 1].
UnitInterval(x) == ~RatioLess(x, <<0, 1>>) /\ ~RatioLess(<<1, 1>>, x)

C32_PosteriorScoresNormalized ==
    (fusion_in.strategy = "bayesian" /\ fusion_log # <<>>)
        => /\ LET s == bayesian_scores(fusion_in.signals)
              IN  ~RatioLess(<<1, 1>>, RatioAdd(s.buy_score, s.sell_score))
           /\ \A i \in DOMAIN fusion_log : UnitInterval(fusion_log[i].confidence)

\* What does hold: with no two signals of one agent class the scores are
\* normalized.
C32_NormalizedPerAgentClass ==
    (\A i \in DOMAIN fusion_in.signals : \A j \in DOMAIN fusion_in.signals :
        fusion_in.signals[i].agent_type = fusion_in.signals[j].agent_type => i = j)
        => C32_PosteriorScoresNormalized

\* ========================================================================
\* Worker lifecycle: main() -> initialize() -> start() -> shutdown()
\* (base/agent.py and the shutdown() of each worker class)
MaxTasks == 2

Workers == {"execution", "strategy", "risk_manager", "technical_analysis",
            "data_collection"}
\* The classes that override shutdown() and call self._db.close() in it.
ClosesDb == {"execution", "strategy", "risk_manager"}
\* PeriodicAgent.run catches CancelledError and returns.
Periodic == {"execution", "technical_analysis", "data_collection"}

\* The methods PostgreSQLDatabase defines.
PostgreSQLDatabase_methods ==
    {"connect", "disconnect", "acquire", "execute", "fetch_one", "fetch_all",
     "insert_trade", "insert_signal", "get_active_positions",
     "get_portfolio_snapshot", "get_recent_signals"}

cancel_kind(ts, kind) ==
    [i \in DOMAIN ts |->
        IF ts[i].kind = kind THEN [ts[i] EXCEPT !.state = "cancelled"] ELSE ts[i]]
closed_if_set(h) == IF h = "none" THEN "none" ELSE "closed"

LifeState(r, ts, db, ex, fx, err) ==
    [running |-> r, tasks |-> ts, db_handle |-> db, exchange_conn |-> ex,
     influx_client |-> fx, error |-> err]

\* cleanup() of the worker class.
cleanup(w, st) ==
    CASE w = "strategy" ->
            [st EXCEPT !.tasks = cancel_kind(@, "decision")]
      [] w = "technical_analysis" ->
            [st EXCEPT !.influx_client = closed_if_set(@)]
      [] w = "data_collection" ->
            [st EXCEPT !.exchange_conn = closed_if_set(@),
                       !.influx_client = closed_if_set(@)]
      [] OTHER -> st

\* BaseAgent.shutdown: clear the flag, cancel and gather the managed tasks,
\* run cleanup().
BaseAgent_shutdown(w, st) ==
    cleanup(w, [st EXCEPT !.running = FALSE,
                          !.tasks = cancel_kind(@, "managed")])

\* await self._db.close(): the attribute lookup raises AttributeError,
\* PostgreSQLDatabase has no close.
db_close(st) ==
    IF "close" \in PostgreSQLDatabase_methods
    THEN [st EXCEPT !.db_handle = "closed"]
    ELSE [st EXCEPT !.error = "AttributeError"]

\* shutdown() of the worker class, from the state st: the state it leaves
\* and the exception it ends with ("none": it returned).
shutdown(w, st) ==
    LET first ==
            CASE w = "execution" ->
                    [st EXCEPT !.exchange_conn = closed_if_set(@)]
              [] w = "strategy" ->
                    [st EXCEPT !.tasks = cancel_kind(@, "decision")]
              [] OTHER -> st
        closed == IF w \in ClosesDb /\ first.db_handle # "none"
                  THEN db_close(first) ELSE first
    IN  IF closed.error # "none" THEN closed ELSE BaseAgent_shutdown(w, closed)

CurLife == LifeState(running, tasks, db_handle, exchange_conn, influx_client,
                     "none")

\* BaseAgent.initialize and the subclass's initialize / setup.  how is
\* "ok", "broker_failed" (get_broker raised, nothing is set) or
\* "setup_failed" (an await after self._db = await get_db() raised).  A
\* failure leaves main()'s try block for its finally block.
Initialize(how) ==
    /\ life_pc = "constructed"
    /\ db_handle' = IF how = "broker_failed" THEN "none" ELSE "PostgreSQLDatabase"
    /\ influx_client' =
          IF how = "ok" /\ worker \in {"risk_manager", "technical_analysis",
                                       "data_collection"}
          THEN "open" ELSE influx_client
    /\ exchange_conn' =
          IF how = "ok" /\ worker = "data_collection" THEN "open"
          ELSE exchange_conn
    /\ life_pc' = IF how = "ok" THEN "initialized" ELSE "main_finally"
    /\ UNCHANGED <<worker, running, tasks, shutdown_log>>
    /\ UNCHANGED notLifecycle

\* BaseAgent.start up to run(): the flag is set; StrategyAgent.run creates
\* its decision task.
Start ==
    /\ life_pc = "initialized"
    /\ running' = TRUE
    /\ tasks' = IF worker = "strategy"
                THEN Append(tasks, [kind |-> "decision", state |-> "pending"])
                ELSE tasks
    /\ life_pc' = "running"
    /\ UNCHANGED <<worker, db_handle, exchange_conn, influx_client,
                   shutdown_log>>
    /\ UNCHANGED notLifecycle

\* BaseAgent.create_task.
CreateTask ==
    /\ life_pc = "running"
    /\ Cardinality({i \in DOMAIN tasks : tasks[i].kind = "managed"}) < MaxTasks
    /\ tasks' = Append(tasks, [kind |-> "managed", state |-> "pending"])
    /\ UNCHANGED <<worker, life_pc, running, db_handle, exchange_conn,
                   influx_client, shutdown_log>>
    /\ UNCHANGED notLifecycle

\* run() ends: it returns (a PeriodicAgent that was cancelled) or an
\* exception leaves it (CancelledError in the other classes, an error in
\* _setup_subscriptions or run).  start()'s finally block is next.
RunEnds(how) ==
    /\ life_pc = "running"
    /\ how = "returned" => worker \in Periodic
    /\ life_pc' = IF how = "returned" THEN "start_finally_returned"
                  ELSE "start_finally_raised"
    /\ UNCHANGED <<worker, running, tasks, db_handle, exchange_conn,
                   influx_client, shutdown_log>>
    /\ UNCHANGED notLifecycle

SetLife(st) ==
    /\ running' = st.running
    /\ tasks' = st.tasks
    /\ db_handle' = st.db_handle
    /\ exchange_conn' = st.exchange_conn
    /\ influx_client' = st.influx_client

ShutdownRecord(caller, st) ==
    [caller |-> caller, error |-> st.error,
     changed |-> [st EXCEPT !.error = "none"] # CurLife]

\* start(): finally: await self.shutdown().  When run() returned and
\* shutdown() returns, start() returns and main() waits in its loop;
\* otherwise the exception reaches main()'s finally block.
ShutdownFromStart ==
    /\ life_pc \in {"start_finally_returned", "start_finally_raised"}
    /\ LET st == shutdown(worker, CurLife)
       IN  /\ SetLife(st)
           /\ shutdown_log' = Append(shutdown_log, ShutdownRecord("start", st))
           /\ life_pc' = IF life_pc = "start_finally_returned" /\ st.error = "none"
                         THEN "main_waiting" ELSE "main_finally"
    /\ UNCHANGED worker
    /\ UNCHANGED notLifecycle

\* main() is cancelled in its while True loop.
MainCancelled ==
    /\ life_pc = "main_waiting"
    /\ life_pc' = "main_finally"
    /\ UNCHANGED <<worker, running, tasks, db_handle, exchange_conn,
                   influx_client, shutdown_log>>
    /\ UNCHANGED notLifecycle

\* main(): finally: await agent.shutdown().
ShutdownFromMain ==
    /\ life_pc = "main_finally"
    /\ LET st == shutdown(worker, CurLife)
       IN  /\ SetLife(st)
           /\ shutdown_log' = Append(shutdown_log, ShutdownRecord("main", st))
    /\ life_pc' = "exited"
    /\ UNCHANGED worker
    /\ UNCHANGED notLifecycle

\* After the constructor of any of the worker classes.
LifecycleInit ==
    /\ LedgerIdle
    /\ ExtIdle
    /\ ExecIdle
    /\ RiskIdle
    /\ StrategyIdle
    /\ CalcIdle
    /\ worker \in Workers
    /\ life_pc = "constructed"
    /\ running = FALSE
    /\ tasks = <<>>
    /\ db_handle = "none"
    /\ exchange_conn = IF worker = "execution" THEN "open" ELSE "none"
    /\ influx_client = "none"
    /\ shutdown_log = <<>>

LifecycleNext ==
    \/ \E how \in {"ok", "broker_failed", "setup_failed"} : Initialize(how)
    \/ Start
    \/ CreateTask
    \/ \E how \in {"returned", "raised"} : RunEnds(how)
    \/ ShutdownFromStart
    \/ MainCancelled
    \/ ShutdownFromMain

SpecLifecycle == LifecycleInit /\ [][LifecycleNext]_vars

\* ------------------------------------------------------------------------
\* C10: shutdown() is idempotent for every worker: a call after the first
\* one has ended (start()'s finally block, then main()'s) raises no error
\* and changes neither the tasks, nor the exchange connection, nor the
\* store handles.
C10_ShutdownIdempotent ==
    \A k \in DOMAIN shutdown_log :
        k >= 2 => /\ shutdown_log[k].error = "none"
                  /\ ~shutdown_log[k].changed

\* ========================================================================
\* One subscription of a worker on the bus
\* (src/agents/base/agent.py subscribe_topic, src/infrastructure/messaging/
\* rabbitmq.py subscribe).  The broker hands the queue's messages to the
\* consumer while fewer than prefetch_count are unacknowledged; the bus
\* library starts one process_message task per message it is handed.
\* ========================================================================
MaxBusMessages == 3

\* self._channel.set_qos(prefetch_count=10)
prefetch_count == 10

\* What a producer may put on the topic: a message the handler is run on, a
\* JSON object that deserialize_message rejects, and a body that is no JSON.
BusMessageKinds == {"valid", "undeserializable", "bad_json"}

\* wrapped_handler(data) around a handler's result: "returned",
\* "DeserializeError" (deserialize_message raised) or "HandlerError".
\* Without its try/except:
wrapped_handler_NoExcept(result) ==
    [raised |-> result # "returned", agent_logged |-> FALSE]

\* With it: any Exception is given to log_error and not raised again.
wrapped_handler(result) ==
    [raised |-> FALSE, agent_logged |-> result # "returned"]

\* process_message(message): json.loads and the callback run inside
\* try/except Exception, which logs message_processing_failed; the body of
\* "async with message.process()" therefore ends normally and the context
\* manager acknowledges the message (it would reject it on an exception).
process_message(json_ok, callback) ==
    LET caught == ~json_ok \/ callback.raised
    IN [acked |-> TRUE, rejected |-> FALSE, propagated |-> FALSE,
        broker_logged |-> caught,
        agent_logged |-> json_ok /\ callback.agent_logged]

BusDelivery(kind, pc, out) ==
    [kind |-> kind, pc |-> pc, result |-> "none", acked |-> out.acked,
     rejected |-> out.rejected, propagated |-> out.propagated,
     broker_logged |-> out.broker_logged, agent_logged |-> out.agent_logged,
     after_shutdown |-> bus_shutdown]

NotProcessed ==
    [acked |-> FALSE, rejected |-> FALSE, propagated |-> FALSE,
     broker_logged |-> FALSE, agent_logged |-> FALSE]

Unacknowledged ==
    Cardinality({d \in DOMAIN bus_deliveries :
                    ~bus_deliveries[d].acked /\ ~bus_deliveries[d].rejected})

\* start() -> _setup_subscriptions / setup() -> subscribe_topic ->
\* broker.subscribe: the queue is declared and bound, and consumed from.
BusSubscribe ==
    /\ ~bus_consuming
    /\ ~bus_shutdown
    /\ bus_consuming' = TRUE
    /\ UNCHANGED <<bus_queue, bus_sent, bus_deliveries, bus_shutdown>>
    /\ UNCHANGED notBus

\* Another worker publishes to the topic; the durable queue keeps the message.
BusPublish(kind) ==
    /\ bus_sent < MaxBusMessages
    /\ bus_sent' = bus_sent + 1
    /\ bus_queue' = Append(bus_queue, kind)
    /\ UNCHANGED <<bus_consuming, bus_deliveries, bus_shutdown>>
    /\ UNCHANGED notBus

\* The broker delivers the message at the head of the queue and its
\* process_message task runs up to the first await that suspends: the
\* handler's, for a message that deserializes; otherwise to its end.
BusDeliver ==
    /\ bus_consuming
    /\ bus_queue # <<>>
    /\ Unacknowledged < prefetch_count
    /\ LET kind == Head(bus_queue)
       IN bus_deliveries' = Append(bus_deliveries,
             CASE kind = "valid" -> BusDelivery(kind, "handling", NotProcessed)
               [] kind = "undeserializable" ->
                     [BusDelivery(kind, "done",
                         process_message(TRUE, wrapped_handler("DeserializeError")))
                        EXCEPT !.result = "DeserializeError"]
               [] OTHER ->
                     [BusDelivery(kind, "done",
                         process_message(FALSE, wrapped_handler("returned")))
                        EXCEPT !.result = "JSONDecodeError"])
    /\ bus_queue' = Tail(bus_queue)
    /\ UNCHANGED <<bus_consuming, bus_sent, bus_shutdown>>
    /\ UNCHANGED notBus

\* The handler of a delivery ends: it returns, or it raises.
HandlerEnds(d, result) ==
    /\ d \in DOMAIN bus_deliveries
    /\ bus_deliveries[d].pc = "handling"
    /\ LET out == process_message(TRUE, wrapped_handler(result))
       IN bus_deliveries' =
             [bus_deliveries EXCEPT
                 ![d] = [@ EXCEPT !.pc = "done", !.result = result,
                                  !.acked = out.acked,
                                  !.rejected = out.rejected,
                                  !.propagated = out.propagated,
                                  !.broker_logged = out.broker_logged,
                                  !.agent_logged = out.agent_logged]]
    /\ UNCHANGED <<bus_consuming, bus_queue, bus_sent, bus_shutdown>>
    /\ UNCHANGED notBus

\* shutdown() of the worker runs to its end: BaseAgent.shutdown clears
\* _running, cancels self._tasks and calls cleanup(); the workers' overrides
\* close their store and exchange handles.  None of them touches
\* self._broker, the channel or the consumer, and the process_message tasks
\* are not among self._tasks.
BusShutdown ==
    /\ bus_consuming
    /\ ~bus_shutdown
    /\ bus_shutdown' = TRUE
    /\ UNCHANGED <<bus_consuming, bus_queue, bus_sent, bus_deliveries>>
    /\ UNCHANGED notBus

BusInit ==
    /\ LedgerIdle
    /\ ExtIdle
    /\ ExecIdle
    /\ RiskIdle
    /\ StrategyIdle
    /\ LifecycleIdle
    /\ CalcIdle

BusNext ==
    \/ BusSubscribe
    \/ \E kind \in BusMessageKinds : BusPublish(kind)
    \/ BusDeliver
    \/ \E d \in 1..MaxBusMessages, result \in {"returned", "HandlerError"} : HandlerEnds(d, result)
    \/ BusShutdown

SpecBus == BusInit /\ [][BusNext]_vars

Failed(d) == bus_deliveries[d].pc = "done" /\ bus_deliveries[d].result # "returned"

\* ------------------------------------------------------------------------
\* C24: handlers run one message at a time per subscription: no handler
\* invocation begins before the invocation for the message delivered before
\* it has completed.
C24_OneHandlerAtATime ==
    Cardinality({d \in DOMAIN bus_deliveries : bus_deliveries[d].pc = "handling"}) <= 1

\* ------------------------------------------------------------------------
\* C25: a message is acknowledged only after its handler has succeeded: a
\* message whose handler, or whose deserialization, raised is not
\* acknowledged.
C25_AckOnlyAfterSuccess ==
    \A d \in DOMAIN bus_deliveries : Failed(d) => ~bus_deliveries[d].acked

\* ------------------------------------------------------------------------
\* C26: a handler exception or an undeserializable message never tears down
\* the worker: the error is recorded (by the worker's log_error when the
\* body was JSON, by the broker's logger otherwise), the message is dropped
\* (acknowledged, not requeued), no exception leaves process_message, and
\* the subscription goes on consuming.
C26_FailureNeverTearsDown ==
    \A d \in DOMAIN bus_deliveries :
        Failed(d) =>
            /\ bus_deliveries[d].agent_logged = (bus_deliveries[d].kind # "bad_json")
            /\ bus_deliveries[d].broker_logged = (bus_deliveries[d].kind = "bad_json")
            /\ bus_deliveries[d].acked
            /\ ~bus_deliveries[d].rejected
            /\ ~bus_deliveries[d].propagated
            /\ bus_consuming

\* Reached: each kind of failure has happened, and a message delivered
\* after a failure was handled to its end.
C26_Witness ==
    /\ \E d \in DOMAIN bus_deliveries :
          Failed(d) /\ bus_deliveries[d].result = "HandlerError"
    /\ \E d \in DOMAIN bus_deliveries :
          Failed(d) /\ bus_deliveries[d].result = "DeserializeError"
    /\ bus_deliveries[Len(bus_deliveries)].pc = "done"
    /\ bus_deliveries[Len(bus_deliveries)].result = "returned"
    /\ Len(bus_deliveries) = MaxBusMessages

\* ------------------------------------------------------------------------
\* C28: shutdown() releases the worker's bus handle: once it has completed,
\* no handler of the worker is invoked for a message delivered afterwards.
C28_NoHandlerAfterShutdown ==
    \A d \in DOMAIN bus_deliveries : ~bus_deliveries[d].after_shutdown

\* ========================================================================
\* PeriodicAgent.run (src/agents/base/agent.py): the loop around execute()
\* ========================================================================
MaxExecutes == 4

\* while self._running: the test at the head of the loop.
while_running(flag) ==
    IF flag THEN [pc |-> "executing", end |-> "none"]
    ELSE [pc |-> "ended", end |-> "flag_cleared"]

\* The except clauses of the loop body with every exception ending the loop.
periodic_except_Break(exc, at) ==
    [pc |-> "ended", end |-> exc, logged |-> 0]

\* The except clauses of the loop body, for an exception raised at "at":
\* CancelledError breaks; any other exception is logged and the loop sleeps
\* for interval.  A CancelledError that arrives during the sleep inside the
\* except clause is not caught and leaves run().
periodic_except(exc, at) ==
    IF exc = "CancelledError"
    THEN [pc |-> "ended", end |-> "cancelled", logged |-> 0]
    ELSE [pc |-> "retry_sleeping", end |-> "none", logged |-> 1]

SetLoop(r) ==
    /\ loop_pc' = r.pc
    /\ loop_end' = r.end

\* start() sets _running and awaits run(), which enters the loop and awaits
\* execute().
PeriodicStart ==
    /\ loop_pc = "idle"
    /\ running' = TRUE
    /\ SetLoop(while_running(TRUE))
    /\ UNCHANGED <<loop_log, loop_errors>>
    /\ UNCHANGED notLoop

\* execute() returns: the loop awaits asyncio.sleep(self.interval).
ExecuteReturns ==
    /\ loop_pc = "executing"
    /\ loop_pc' = "sleeping"
    /\ loop_log' = Append(loop_log, "returned")
    /\ UNCHANGED <<running, loop_errors, loop_end>>
    /\ UNCHANGED notLoop

\* execute() raises an Exception.
ExecuteRaises ==
    /\ loop_pc = "executing"
    /\ LET r == periodic_except("Exception", "execute")
       IN /\ SetLoop([pc |-> r.pc, end |-> r.end])
          /\ loop_errors' = loop_errors + r.logged
    /\ loop_log' = Append(loop_log, "raised")
    /\ UNCHANGED running
    /\ UNCHANGED notLoop

\* asyncio.sleep returns, in the try block or in the except clause: the
\* loop tests the flag and calls execute() again or ends.
SleepReturns ==
    /\ loop_pc \in {"sleeping", "retry_sleeping"}
    /\ running => Len(loop_log) < MaxExecutes
    /\ SetLoop(while_running(running))
    /\ UNCHANGED <<running, loop_log, loop_errors>>
    /\ UNCHANGED notLoop

\* The task that runs the loop is cancelled while it is suspended.
LoopCancelled ==
    /\ loop_pc \in {"executing", "sleeping", "retry_sleeping"}
    /\ LET r == periodic_except("CancelledError", loop_pc)
       IN /\ SetLoop([pc |-> r.pc, end |-> r.end])
          /\ loop_errors' = loop_errors + r.logged
    /\ UNCHANGED <<running, loop_log>>
    /\ UNCHANGED notLoop

\* shutdown() is called while the loop is suspended: self._running = False.
\* The loop is awaited by start() and is not one of self._tasks.
ShutdownClearsFlag ==
    /\ loop_pc \in {"executing", "sleeping", "retry_sleeping"}
    /\ running
    /\ running' = FALSE
    /\ UNCHANGED loopVars
    /\ UNCHANGED notLoop

PeriodicInit ==
    /\ LedgerIdle
    /\ ExtIdle
    /\ ExecIdle
    /\ RiskIdle
    /\ StrategyIdle
    /\ LifecycleIdle
    /\ CalcIdle

PeriodicNext ==
    \/ PeriodicStart
    \/ ExecuteReturns
    \/ ExecuteRaises
    \/ SleepReturns
    \/ LoopCancelled
    \/ ShutdownClearsFlag

\* The event loop resumes a coroutine whose sleep has elapsed, and a call of
\* execute() comes to an end.
SpecPeriodic ==
    /\ PeriodicInit
    /\ [][PeriodicNext]_vars
    /\ WF_vars(SleepReturns)
    /\ WF_vars(ExecuteReturns \/ ExecuteRaises)

Raised == {i \in DOMAIN loop_log : loop_log[i] = "raised"}

\* ------------------------------------------------------------------------
\* C27: an exception from execute() is recoverable: it is logged and, after
\* the sleep, execute() is called again while the worker is running; the
\* loop ends only on cancellation or with the running flag cleared; and
\* once shutdown has cleared the flag the loop eventually terminates.
C27_ExceptionRecoverable ==
    /\ loop_errors = Cardinality(Raised)
    /\ loop_pc = "ended" => \/ loop_end = "cancelled"
                            \/ loop_end = "flag_cleared" /\ ~running
    /\ loop_pc # "ended" => loop_end = "none"

C27_RetryStep ==
    (loop_pc = "retry_sleeping" /\ running /\ loop_pc' # loop_pc /\ loop_end' # "cancelled")
        => loop_pc' = "executing"

C27_PeriodicLoopRecovers ==
    /\ []C27_ExceptionRecoverable
    /\ [][C27_RetryStep]_vars
    /\ ((loop_pc # "idle" /\ ~running) ~> (loop_pc = "ended"))

\* Reached: execute() raised, the loop called it again, and the loop ended
\* on the cleared flag.
C27_Witness ==
    /\ \E i \in Raised : i < Len(loop_log)
    /\ loop_pc = "ended"
    /\ loop_end = "flag_cleared"

\* ========================================================================
\* ExchangeGateway.create_order under @retry(stop=stop_after_attempt(2),
\* wait=wait_exponential(...)) (infrastructure/gateway/exchange.py)
\* ========================================================================
MaxGatewayCalls == 2

\* stop_after_attempt(2) of the decorator of create_order.
create_order_attempts == 2

\* What self._exchange.create_order may raise: the exchange was not reached
\* (NetworkError) or answered that it is unavailable (ExchangeNotAvailable);
\* it refused the order (InvalidOrder, InsufficientFunds); or the call failed
\* with the fate of the order unknown (ExchangeError).
TransientErrors == {"NetworkError", "ExchangeNotAvailable"}
RefusedErrors == {"InvalidOrder", "InsufficientFunds"}
AmbiguousErrors == {"ExchangeError"}

\* One run of the body of create_order: what it returns or raises, and
\* whether the exchange created an order.
GatewayOutcomes(env) ==
    IF ~env.connected
    THEN {[raised |-> "RuntimeError", created |-> FALSE]}
    ELSE IF env.mode = "paper"
    THEN {[raised |-> "none", created |-> FALSE]}
    ELSE {[raised |-> "none", created |-> TRUE]}
         \cup {[raised |-> e, created |-> FALSE] :
                    e \in TransientErrors \cup RefusedErrors \cup AmbiguousErrors}
         \cup {[raised |-> e, created |-> TRUE] : e \in AmbiguousErrors}

\* The retry argument of the decorator.  create_order passes none, so it is
\* tenacity's default, retry_if_exception_type(): any Exception is retried.
retry_if(exc) == TRUE

stop_after_attempt(max_attempt_number, attempt_number) ==
    attempt_number >= max_attempt_number

GatewayInit ==
    /\ LedgerIdle
    /\ MonitorIdle
    /\ BusIdle
    /\ LoopIdle
    /\ ReserveIdle
    /\ BacklogIdle
    /\ ExecIdle
    /\ RiskIdle
    /\ StrategyIdle
    /\ LifecycleIdle
    /\ CalcIdle
    /\ gateway_env \in [mode : {"paper", "live"}, connected : BOOLEAN]
    /\ gateway_pc = "idle"
    /\ gateway_attempt = 0
    /\ gateway_calls = <<>>
    /\ gateway_result = "none"
    /\ gateway_done = 0
    /\ exchange_created = 0

\* A caller calls gateway.create_order(...): tenacity starts attempt 1.
GatewayCall ==
    /\ gateway_pc \in {"idle", "returned", "raised"}
    /\ gateway_done < MaxGatewayCalls
    /\ gateway_pc' = "attempt"
    /\ gateway_attempt' = 1
    /\ gateway_calls' = <<>>
    /\ gateway_result' = "none"
    /\ UNCHANGED <<gateway_env, gateway_done, exchange_created>>
    /\ UNCHANGED notGateway

\* One run of the body, and what tenacity does with its outcome: hand the
\* result to the caller, wait before the next attempt, or raise RetryError
\* (reraise is left at False) once stop_after_attempt says so; an exception
\* the retry argument does not cover goes to the caller as it is.
GatewayAttempt(outcome) ==
    /\ gateway_pc = "attempt"
    /\ outcome \in GatewayOutcomes(gateway_env)
    /\ gateway_calls' = Append(gateway_calls, outcome)
    /\ exchange_created' = exchange_created + (IF outcome.created THEN 1 ELSE 0)
    /\ IF outcome.raised = "none"
       THEN /\ gateway_pc' = "returned"
            /\ gateway_result' = "order"
            /\ gateway_done' = gateway_done + 1
       ELSE IF ~retry_if(outcome.raised)
       THEN /\ gateway_pc' = "raised"
            /\ gateway_result' = outcome.raised
            /\ gateway_done' = gateway_done + 1
       ELSE IF stop_after_attempt(create_order_attempts, gateway_attempt)
       THEN /\ gateway_pc' = "raised"
            /\ gateway_result' = "RetryError"
            /\ gateway_done' = gateway_done + 1
       ELSE /\ gateway_pc' = "backoff"
            /\ UNCHANGED <<gateway_result, gateway_done>>
    /\ UNCHANGED <<gateway_env, gateway_attempt>>
    /\ UNCHANGED notGateway

\* wait_exponential has elapsed: the next attempt begins.
GatewayBackoffEnds ==
    /\ gateway_pc = "backoff"
    /\ gateway_pc' = "attempt"
    /\ gateway_attempt' = gateway_attempt + 1
    /\ UNCHANGED <<gateway_env, gateway_calls, gateway_result, gateway_done,
                   exchange_created>>
    /\ UNCHANGED notGateway

GatewayNext ==
    \/ GatewayCall
    \/ \E outcome \in GatewayOutcomes(gateway_env) : GatewayAttempt(outcome)
    \/ GatewayBackoffEnds

SpecGateway == GatewayInit /\ [][GatewayNext]_vars

\* ------------------------------------------------------------------------
\* C35: order placement through the exchange gateway is attempted at most 2
\* times and is never retried after an ambiguous (non-idempotent) failure:
\* only network / unavailable errors lead to a second create_order call,
\* every other failure reaches the caller at once.
C35_RetryOnlyTransient ==
    /\ Len(gateway_calls) <= create_order_attempts
    /\ \A i \in DOMAIN gateway_calls :
          i > 1 => gateway_calls[i - 1].raised \in TransientErrors

\* What does hold: the body runs at most twice per call.
C35_AtMostTwoAttempts == Len(gateway_calls) <= create_order_attempts

\* One call of create_order never leaves more than one order on the exchange.
C35_OneOrderPerCall ==
    Cardinality({i \in DOMAIN gateway_calls : gateway_calls[i].created}) <= 1

\* ========================================================================
\* The trade.order subscription of the Execution Core under prefetch_count:
\* a message stays unacknowledged until _handle_order has returned
\* (rabbitmq.py process_message; execution/agent.py _handle_order,
\* _monitor_order; order_executor.py watch_order).  The orders are alike, so
\* the handlers are counted by the await they stand at: "placing"
\* (place_*_order), "watching" (watch_orders, the order open on the
\* exchange), "watching_expired" (watch_orders, the order expired).
\* ========================================================================
MaxOrders == 11

Unacked ==
    order_handlers["placing"] + order_handlers["watching"]
        + order_handlers["watching_expired"]

\* The statuses at which watch_order leaves its loop.
watch_order_final == {"filled", "cancelled", "rejected"}

\* The statuses an update of a watched order may carry.
WatchedStatuses == {"open", "partially_filled", "filled", "cancelled", "expired"}

MoveHandler(from, to) ==
    order_handlers' = [pc \in DOMAIN order_handlers |->
        order_handlers[pc] - (IF pc = from THEN 1 ELSE 0)
                           + (IF pc = to THEN 1 ELSE 0)]

\* The Risk Core publishes an Order on trade.order.
OrderPublished ==
    /\ orders_published < MaxOrders
    /\ orders_published' = orders_published + 1
    /\ order_queue' = order_queue + 1
    /\ UNCHANGED <<order_handlers, orders_acked>>
    /\ UNCHANGED notBacklog

\* The broker hands a message to the consumer, which it does while fewer
\* than prefetch_count messages are unacknowledged: process_message ->
\* wrapped_handler -> _handle_order, up to the await of place_*_order.
OrderDelivered ==
    /\ order_queue > 0
    /\ Unacked < prefetch_count
    /\ order_queue' = order_queue - 1
    /\ MoveHandler("none", "placing")
    /\ UNCHANGED <<orders_acked, orders_published>>
    /\ UNCHANGED notBacklog

\* place_*_order returned (or raised): a filled or rejected order is
\* processed and the handler returns, so the message is acknowledged; any
\* other status goes to _monitor_order, which awaits watch_order.
OrderPlaced(status) ==
    /\ order_handlers["placing"] > 0
    /\ IF status \in {"filled", "rejected", "raised"}
       THEN /\ MoveHandler("placing", "none")
            /\ orders_acked' = orders_acked + 1
       ELSE /\ MoveHandler("placing", "watching")
            /\ UNCHANGED orders_acked
    /\ UNCHANGED <<order_queue, orders_published>>
    /\ UNCHANGED notBacklog

\* watch_orders returned an update of a watched order that is open on the
\* exchange: at a final status watch_order returns and the handler with it;
\* at any other status the loop awaits the next update.
WatchedOrderUpdate(status) ==
    /\ order_handlers["watching"] > 0
    /\ IF status \in watch_order_final
       THEN /\ MoveHandler("watching", "none")
            /\ orders_acked' = orders_acked + 1
       ELSE IF status = "expired"
       THEN /\ MoveHandler("watching", "watching_expired")
            /\ UNCHANGED orders_acked
       ELSE UNCHANGED <<order_handlers, orders_acked>>
    /\ UNCHANGED <<order_queue, orders_published>>
    /\ UNCHANGED notBacklog

\* watch_orders raised (the stream broke): the except clause of watch_order
\* passes and the handler returns.
WatchStreamBreaks(pc) ==
    /\ pc \in {"watching", "watching_expired"}
    /\ order_handlers[pc] > 0
    /\ MoveHandler(pc, "none")
    /\ orders_acked' = orders_acked + 1
    /\ UNCHANGED <<order_queue, orders_published>>
    /\ UNCHANGED notBacklog

BacklogNext ==
    \/ OrderPublished
    \/ OrderDelivered
    \/ \E status \in {"filled", "rejected", "raised", "open"} : OrderPlaced(status)
    \/ \E status \in WatchedStatuses : WatchedOrderUpdate(status)
    \/ \E pc \in {"watching", "watching_expired"} : WatchStreamBreaks(pc)

SpecBacklog == Init /\ [][BacklogNext]_vars

\* ------------------------------------------------------------------------
\* C40: every trade.order delivered to the Execution Core is eventually
\* handled; orders that stay open or end expired while being monitored do
\* not block later orders for ever.  As a state property: whenever an order
\* waits in the queue, the worker can take it, or one of the handlers that
\* hold the prefetch_count unacknowledged messages stands at an await that
\* the exchange will answer (an order being placed, or a watched order the
\* exchange can still fill or cancel).
C40_LaterOrdersNotBlocked ==
    order_queue > 0
        => \/ Unacked < prefetch_count
           \/ order_handlers["placing"] > 0
           \/ order_handlers["watching"] > 0

\* What does hold: the worker never holds more than prefetch_count
\* unacknowledged orders, and no order is lost.
C40_PrefetchBound ==
    /\ Unacked <= prefetch_count
    /\ order_queue + Unacked + orders_acked = orders_published

====
